---- MODULE Spec2Model ----
(***************************************************************************)
(* Model of the extraction-and-pagination engine of the web data scraping  *)
(* assistant backend: the pagination driver (services/pagination.py), the  *)
(* three analyze handlers with their batch loop (api/analyze.py), the      *)
(* request schema validation (schemas/pagination.py) and the HTTP fetch    *)
(* layer with its retry loop (services/http_client.py).                    *)
(***************************************************************************)
EXTENDS Integers, Sequences, FiniteSets, TLC

(***************************************************************************)
(* Bounds of the model.                                                    *)
(***************************************************************************)
MaxPage == 3          \* page numbers start, end range over 0..MaxPage
MaxLimit == 2         \* Offset.limit ranges over 0..MaxLimit
MaxPagesBound == 2    \* max_pages ranges over 0..MaxPagesBound
MaxStartOffset == 1   \* Offset.start_offset ranges over -1..MaxStartOffset
MaxRecs == 2          \* a page holds 0..MaxRecs records
MaxIds == 2           \* a request carries 0..MaxIds batch identifiers
MaxRetries == 2       \* max_retries ranges over 0..MaxRetries
MaxAddrs == 2         \* getaddrinfo returns 0..MaxAddrs entries
MaxUrlLen == 6        \* a URL has 0..MaxUrlLen pieces
MaxNameLen == 3       \* a field name has 0..MaxNameLen characters
MaxNodes == 6         \* a JSON payload has 1..MaxNodes values (containers and leaves)
MaxTags == 2          \* a document has 0..MaxTags top-level tags
MaxFieldLen == 3      \* a cursor_field has 0..MaxFieldLen characters

(***************************************************************************)
(* Program constants.                                                      *)
(***************************************************************************)
HttpMaxBytes == 2000000    \* settings.http_max_bytes
RetryPauseS == 1           \* time.sleep(1) between two attempts
MaxVisited == 500          \* while queue and visited < 500
ListSlice == 50            \* node[:50]

(***************************************************************************)
(* Python values.                                                          *)
(***************************************************************************)
None == "<None>"                       \* Python None (distinct from every str)
CursorStrings == {"", "c1"}            \* str values a cursor can take
CursorValues == CursorStrings \cup {None}

EmptyDict == [k \in {} |-> None]
DictSet(d, k, v) == [x \in (DOMAIN d) \cup {k} |-> IF x = k THEN v ELSE d[x]]
\* mutant: the key stays
DictPop_keep(d, k) == d
DictPop(d, k) == [x \in (DOMAIN d) \ {k} |-> d[x]]

(***************************************************************************)
(* schemas/pagination.py: the three pagination variants.                   *)
(***************************************************************************)
NoPagination == [type |-> "none"]
PageParamPagination(s, e) ==
    [type |-> "page_param", param |-> "page", start |-> s, end |-> e]
OffsetPagination(lim, mp, so) ==
    [type |-> "offset", offset_param |-> "offset", limit_param |-> "limit",
     limit |-> lim, max_pages |-> mp, start_offset |-> so]
CursorPagination(mp, ic) ==
    [type |-> "cursor", cursor_param |-> "cursor", cursor_field |-> "next",
     max_pages |-> mp, initial_cursor |-> ic]

\* every pagination object a JSON request body can describe
RawPaginations ==
    {NoPagination}
    \cup {PageParamPagination(s, e) : s \in 0..MaxPage, e \in 0..MaxPage}
    \cup {OffsetPagination(l, m, o) :
            l \in 0..MaxLimit, m \in 0..MaxPagesBound, o \in (-1)..MaxStartOffset}
    \cup {CursorPagination(m, c) : m \in 0..MaxPagesBound, c \in CursorValues}

\* the Field(ge=...) constraints pydantic enforces when it builds the object
ValidPagination(p) ==
    CASE p.type = "none" -> TRUE
      [] p.type = "page_param" -> p.start >= 1 /\ p.end >= 1
      [] p.type = "offset" -> p.limit >= 1 /\ p.max_pages >= 1 /\ p.start_offset >= 0
      [] p.type = "cursor" -> p.max_pages >= 1

Paginations == {p \in RawPaginations : ValidPagination(p)}

(***************************************************************************)
(* State.                                                                  *)
(***************************************************************************)
VARIABLES
    \* ---- services/pagination.py: one run of run_pagination
    pagination,      \* the pagination spec (payload.pagination)
    base_params,     \* base_params argument
    has_getter,      \* cursor_getter is not None
    has_setter,      \* cursor_setter is not None
    params,          \* local dict params
    all_records,     \* local list all_records
    pages_fetched,   \* local pages_fetched
    page,            \* next value of range(start, end + 1)
    offset,          \* local offset
    cursor,          \* local cursor
    it,              \* iterations of range(max_pages) taken so far
    rpc,             \* "idle" | "loop" | "returned" | "raised"
    run,             \* the PaginationRunResult returned, or None
    results,         \* number of PaginationRunResult objects built in this run
    cursor_holder,   \* the cell behind cursor_getter / cursor_setter
    setter_calls,    \* values handed to cursor_setter by run_pagination
    \* ---- api/analyze.py: one request
    mode,            \* "engine" (run_pagination alone) | "document" | "xhr" | "selenium"
    identifiers,     \* payload.batch_identifiers
    delay_ms,        \* payload.delay_ms
    method,          \* payload.method (xhr)
    hpc,             \* position of the handler
    idx,             \* index of the batch loop (1-based; 0 outside a handler)
    h_all_records,   \* the handler's all_records
    trace,           \* the decision trace
    pass_log,        \* per finished pass: what it contributed
    events,          \* everything that left the process: fetches and sleeps, in order
    \* ---- services/http_client.py: one call of get_bytes / post_bytes
    h_method,        \* "GET" (get_bytes) | "POST" (post_bytes) | "RENDER" (selenium)
    h_url,           \* url argument, as urlparse reads it
    dns,             \* what socket.getaddrinfo answered in this call
    max_retries,     \* max_retries argument
    block_private_networks,   \* settings.block_private_networks
    attempt,         \* loop variable of range(max_retries + 1)
    http_pc,         \* "idle" | "loop" | "returned" | "raised"
    http_log,        \* the guard, the request attempts and the pauses of the call, in order
    last_error,      \* local last_error
    http_result,     \* the FetchResult returned or the FetchError raised, or None
    \* ---- one function called on its own
    fn,              \* the function under call ("none": none)
    fn_args,         \* its arguments
    fn_ret,          \* what it returned so far
    heap             \* the dict objects alive: heap[a] is the dict at address a

engineVars == <<pagination, base_params, has_getter, has_setter, params, all_records,
                pages_fetched, page, offset, cursor, it, rpc, run, results,
                cursor_holder, setter_calls>>
handlerVars == <<mode, identifiers, delay_ms, method, hpc, idx, h_all_records, trace,
                 pass_log>>
httpVars == <<h_method, h_url, dns, max_retries, block_private_networks, attempt,
              http_pc, http_log, last_error, http_result>>
fnVars == <<fn, fn_args, fn_ret, heap>>
vars == <<engineVars, handlerVars, events, httpVars, fnVars>>

\* no function is called on its own
FnIdle ==
    /\ fn = "none"
    /\ fn_args = <<>>
    /\ fn_ret = <<>>
    /\ heap = <<>>

\* no call of the fetch layer is being followed
\* socket.getaddrinfo was not called
DnsNotAsked == [asked |-> FALSE, gaierror |-> FALSE, infos |-> <<>>]

HttpIdle ==
    /\ h_method = "GET"
    /\ h_url = None
    /\ dns = DnsNotAsked
    /\ max_retries = 0
    /\ block_private_networks = TRUE
    /\ attempt = 0
    /\ http_pc = "idle"
    /\ http_log = <<>>
    /\ last_error = None
    /\ http_result = None

(***************************************************************************)
(* Records.  A record carries where it came from: the pass (batch index),  *)
(* the number of the fetch within the pass and its position on the page.   *)
(***************************************************************************)
PageRecords(id, call, n) == [j \in 1..n |-> [id |-> id, call |-> call, i |-> j]]

\* an outbound request: the url and the body are those execute_pass was given
\* for the pass (named by the number of the pass, 0: none), query is what goes
\* into the query string besides
Request(m, id, query, with_body) ==
    [method |-> m, url |-> id, query |-> query, body |-> IF with_body THEN id ELSE 0]
NoRequest == Request("none", 0, EmptyDict, FALSE)

\* mutant: a POST carries the parameters of the page
Outbound_paged(id, p) ==
    IF mode = "xhr" /\ method = "POST" THEN Request("POST", id, p, TRUE)
    ELSE Request("GET", id, p, FALSE)
\* what a fetch of pass id sends when the parameters p are handed to it:
\* fetch_once (xhr: post_bytes(url, body=...) or get_bytes(url, params=...)),
\* get_bytes(with_query_param(url, ...)) (document), the renderer (selenium)
Outbound(id, p) ==
    CASE mode = "xhr" /\ method = "POST" -> Request("POST", id, EmptyDict, TRUE)
      [] mode = "xhr" /\ method # "POST" -> Request("GET", id, p, FALSE)
      [] mode = "document" -> Request("GET", id, p, FALSE)
      [] mode = "selenium" -> Request("RENDER", id, EmptyDict, FALSE)
      [] OTHER -> NoRequest

\* events of kind "page" are invocations of the fetch_page callback
\* next is the cursor the page's response carried (what the cursor cell then holds)
PageEvent(id, p, n, raised, next) ==
    [kind |-> "page", id |-> id, params |-> p, n |-> n, raised |-> raised,
     next |-> next, sent |-> Outbound(id, p)]
\* n is the number of records the response holds
FetchEvent(id, out) ==
    [kind |-> "fetch", id |-> id, params |-> EmptyDict, n |-> out.n,
     raised |-> out.raised, next |-> None, sent |-> Outbound(id, EmptyDict),
     status_ok |-> out.status_ok]
SleepEvent(id) ==
    [kind |-> "sleep", id |-> id, params |-> EmptyDict, n |-> 0, raised |-> FALSE,
     next |-> None, sent |-> NoRequest]
\* the pause between two batch items
BatchSleepEvent(id) ==
    [kind |-> "batch_sleep", id |-> id, params |-> EmptyDict, n |-> 0,
     raised |-> FALSE, next |-> None, sent |-> NoRequest]

IsPageOf(e, id) == e.kind = "page" /\ e.id = id
\* the fetch_page calls of the current run, in call order
Calls == SelectSeq(events, LAMBDA e : IsPageOf(e, idx))

\* what one call of fetch_page can do: raise, or return n records; next is the
\* cursor the response carries (None when it carries none)
EngineOutcomes ==
    {[raised |-> TRUE, n |-> 0, next |-> None, status_ok |-> TRUE]}
    \cup {[raised |-> FALSE, n |-> n, next |-> c, status_ok |-> TRUE] :
             n \in 0..MaxRecs, c \in CursorValues}
\* inside a handler: the fetch raises, or the response is a JSON body yielding n
\* records under a status below 400, or an HTML error page yielding none
HandlerOutcomes ==
    {[raised |-> TRUE, n |-> 0, next |-> None, status_ok |-> TRUE],
     [raised |-> FALSE, n |-> 0, next |-> None, status_ok |-> TRUE],
     [raised |-> FALSE, n |-> 0, next |-> None, status_ok |-> FALSE],
     [raised |-> FALSE, n |-> 1, next |-> None, status_ok |-> TRUE],
     [raised |-> FALSE, n |-> 1, next |-> "c1", status_ok |-> TRUE]}
\* only the response to a Cursor run is looked at for a cursor
Outcomes ==
    LET every == IF mode = "engine" THEN EngineOutcomes ELSE HandlerOutcomes
    IN IF pagination.type = "cursor" THEN every ELSE {o \in every : o.next = None}

(***************************************************************************)
(* The decision trace (api/analyze.py _trace).  An entry keeps its step,   *)
(* its ok flag, the identifier its details carry (None when they carry     *)
(* none) and whether its details carry an error text.                      *)
(***************************************************************************)
TraceEntry(step, ok, ident, err) ==
    [step |-> step, ok |-> ok, identifier |-> ident, error |-> err]

\* identifiers = payload.batch_identifiers or [None]
Identifiers == IF identifiers = <<>> THEN <<None>> ELSE identifiers
CurrentIdentifier == IF idx \in 1..Len(Identifiers) THEN Identifiers[idx] ELSE None

(***************************************************************************)
(* The fetch_page callbacks.                                               *)
(*   document: analyze_document.execute_pass.fetch_page (no pause, no      *)
(*             trace entry);                                               *)
(*   xhr:      analyze_xhr.execute_pass.fetch_page (pause, fetch_once,     *)
(*             extraction, cursor cell update, trace entries);             *)
(*   engine:   run_pagination driven directly, with callbacks that keep    *)
(*             the response's cursor in the cell, as the xhr ones do.      *)
(***************************************************************************)
EventsAfterFetch(p, out) ==
    LET slept == IF mode = "xhr" /\ delay_ms > 0
                 THEN Append(events, SleepEvent(idx)) ELSE events
    IN Append(slept, PageEvent(idx, p, out.n, out.raised, out.next))

XhrResponseTrace(out) ==
    <<TraceEntry("fetch_xhr", out.status_ok, None, FALSE)>>
    \o (IF out.status_ok
        THEN (IF out.n > 0 THEN <<TraceEntry("json_records", TRUE, None, FALSE)>>
                           ELSE <<>>)
        ELSE <<TraceEntry("html_records_from_xhr", out.n > 0, None, FALSE)>>)

TraceAfterFetch(out) ==
    IF mode # "xhr" \/ out.raised THEN trace
    ELSE trace \o XhrResponseTrace(out)
         \o (IF pagination.type = "cursor"
             THEN <<TraceEntry("cursor_update", TRUE, None, FALSE)>> ELSE <<>>)
         \o <<TraceEntry("xhr_extract", TRUE, None, FALSE)>>

\* mutant: a response without the cursor field leaves the cell as it was
HolderAfterFetch_stale(out) ==
    IF ~out.raised /\ mode \in {"xhr", "engine"} /\ pagination.type = "cursor"
       /\ out.next # None
    THEN out.next ELSE cursor_holder
\* cursor_setter(get_top_level_cursor(...)) in fetch_page: the cell after a page
HolderAfterFetch(out) ==
    IF ~out.raised /\ mode \in {"xhr", "engine"} /\ pagination.type = "cursor"
    THEN out.next ELSE cursor_holder

(***************************************************************************)
(* services/pagination.py run_pagination.                                  *)
(***************************************************************************)
\* params = dict(base_params or {})
CopyParams(bp) == bp

\* mutant: params is base_params itself when that is not empty
\* (`params = base_params or {}`), so a store into params reaches the caller
CallerDict_shared(bp, stored) == IF bp # EmptyDict THEN stored ELSE bp
\* the dict of the caller after run_pagination stored into or popped from
\* params, which is then `stored`: dict(...) made params an object of its own
CallerDict(bp, stored) == bp

\* mutant: a page with one record counts as empty
IsEmptyPage_one(n) == n <= 1
\* `not records`
IsEmptyPage(n) == n = 0

\* all_records.extend(records)
Extend(acc, recs) == acc \o recs

\* mutant: the offset advances by one
NextOffset_one(o, lim) == o + 1
\* offset += pagination.limit
NextOffset(o, lim) == o + lim

\* `cursor is None`
CursorIsNone(c) == c = None

\* mutant: records_total counts pages
PaginationRunResult_pages(pf, recs, reason) ==
    [pages_fetched |-> pf, records_total |-> pf, stopped_reason |-> reason]
PaginationRunResult(pf, recs, reason) ==
    [pages_fetched |-> pf, records_total |-> Len(recs), stopped_reason |-> reason]

\* entry of run_pagination: lines 24-25 and the loop initialisation of the variant
RunStart(pag, bp, getter, setter) ==
    /\ pagination' = pag
    /\ base_params' = bp
    /\ has_getter' = getter
    /\ has_setter' = setter
    /\ params' = CopyParams(bp)
    /\ all_records' = <<>>
    /\ pages_fetched' = 0
    /\ page' = IF pag.type = "page_param" THEN pag.start ELSE 0
    /\ offset' = IF pag.type = "offset" THEN pag.start_offset ELSE 0
    /\ cursor' = IF pag.type = "cursor" THEN pag.initial_cursor ELSE None
    /\ it' = 0
    /\ rpc' = "loop"
    /\ run' = None
    /\ results' = 0
    /\ setter_calls' = <<>>

\* a `return (all_records, PaginationRunResult(...))`
Return(pf, recs, reason) ==
    /\ rpc' = "returned"
    /\ run' = PaginationRunResult(pf, recs, reason)
    /\ results' = results + 1

\* fetch_page raised: the exception leaves run_pagination
Raise ==
    /\ rpc' = "raised"
    /\ UNCHANGED <<run, results>>

\* one iteration of `for page in range(pagination.start, pagination.end + 1)`
PageParamIter(out) ==
    /\ rpc = "loop"
    /\ pagination.type = "page_param"
    /\ page <= pagination.end
    /\ LET p1 == DictSet(params, pagination.param, page)
           recs == PageRecords(idx, pages_fetched + 1, out.n)
       IN /\ params' = p1
          /\ base_params' = CallerDict(base_params, p1)
          /\ events' = EventsAfterFetch(p1, out)
          /\ trace' = TraceAfterFetch(out)
          /\ page' = page + 1
          /\ IF out.raised
             THEN Raise /\ UNCHANGED <<pages_fetched, all_records>>
             ELSE /\ pages_fetched' = pages_fetched + 1
                  /\ IF IsEmptyPage(out.n)
                     THEN /\ Return(pages_fetched + 1, all_records, "empty_page")
                          /\ UNCHANGED all_records
                     ELSE /\ all_records' = Extend(all_records, recs)
                          /\ UNCHANGED <<rpc, run, results>>
    /\ UNCHANGED <<pagination, has_getter, has_setter, offset, cursor, it,
                   cursor_holder, setter_calls>>
    /\ UNCHANGED <<mode, identifiers, delay_ms, method, hpc, idx, h_all_records, pass_log>>

\* the range is exhausted: `return ... stopped_reason="end_reached"`
PageParamEnd ==
    /\ rpc = "loop"
    /\ pagination.type = "page_param"
    /\ page > pagination.end
    /\ Return(pages_fetched, all_records, "end_reached")
    /\ UNCHANGED <<pagination, base_params, has_getter, has_setter, params, all_records,
                   pages_fetched, page, offset, cursor, it, cursor_holder, setter_calls>>
    /\ UNCHANGED <<handlerVars, events>>

\* one iteration of `for _ in range(pagination.max_pages)` of the Offset variant
OffsetIter(out) ==
    /\ rpc = "loop"
    /\ pagination.type = "offset"
    /\ it < pagination.max_pages
    /\ LET p1 == DictSet(DictSet(params, pagination.offset_param, offset),
                         pagination.limit_param, pagination.limit)
           recs == PageRecords(idx, pages_fetched + 1, out.n)
       IN /\ params' = p1
          /\ base_params' = CallerDict(base_params, p1)
          /\ events' = EventsAfterFetch(p1, out)
          /\ trace' = TraceAfterFetch(out)
          /\ it' = it + 1
          /\ IF out.raised
             THEN Raise /\ UNCHANGED <<pages_fetched, all_records, offset>>
             ELSE /\ pages_fetched' = pages_fetched + 1
                  /\ IF IsEmptyPage(out.n)
                     THEN /\ Return(pages_fetched + 1, all_records, "empty_page")
                          /\ UNCHANGED <<all_records, offset>>
                     ELSE /\ all_records' = Extend(all_records, recs)
                          /\ offset' = NextOffset(offset, pagination.limit)
                          /\ UNCHANGED <<rpc, run, results>>
    /\ UNCHANGED <<pagination, has_getter, has_setter, page, cursor,
                   cursor_holder, setter_calls>>
    /\ UNCHANGED <<mode, identifiers, delay_ms, method, hpc, idx, h_all_records, pass_log>>

\* range(max_pages) is exhausted: `return ... stopped_reason="max_pages"`
MaxPagesEnd ==
    /\ rpc = "loop"
    /\ pagination.type \in {"offset", "cursor"}
    /\ it >= pagination.max_pages
    /\ Return(pages_fetched, all_records, "max_pages")
    /\ UNCHANGED <<pagination, base_params, has_getter, has_setter, params, all_records,
                   pages_fetched, page, offset, cursor, it, cursor_holder, setter_calls>>
    /\ UNCHANGED <<handlerVars, events>>

\* one iteration of `for _ in range(pagination.max_pages)` of the Cursor variant
CursorIter(out) ==
    /\ rpc = "loop"
    /\ pagination.type = "cursor"
    /\ it < pagination.max_pages
    /\ LET p1 == IF cursor # None
                 THEN DictSet(params, pagination.cursor_param, cursor)
                 ELSE DictPop(params, pagination.cursor_param)
           recs == PageRecords(idx, pages_fetched + 1, out.n)
           held == HolderAfterFetch(out)
           got == held                       \* cursor = cursor_getter()
       IN /\ params' = p1
          /\ base_params' = CallerDict(base_params, p1)
          /\ events' = EventsAfterFetch(p1, out)
          /\ trace' = TraceAfterFetch(out)
          /\ it' = it + 1
          /\ IF out.raised
             THEN /\ Raise
                  /\ cursor_holder' = held
                  /\ UNCHANGED <<pages_fetched, all_records, cursor, setter_calls>>
             ELSE /\ pages_fetched' = pages_fetched + 1
                  /\ IF IsEmptyPage(out.n)
                     THEN /\ Return(pages_fetched + 1, all_records, "empty_page")
                          /\ cursor_holder' = held
                          /\ UNCHANGED <<all_records, cursor, setter_calls>>
                     ELSE /\ all_records' = Extend(all_records, recs)
                          /\ IF ~has_getter
                             THEN /\ Return(pages_fetched + 1, Extend(all_records, recs),
                                            "missing_cursor_getter")
                                  /\ cursor_holder' = held
                                  /\ UNCHANGED <<cursor, setter_calls>>
                             ELSE /\ cursor' = got
                                  /\ cursor_holder' = IF has_setter THEN got ELSE held
                                  /\ setter_calls' = IF has_setter
                                                     THEN Append(setter_calls, got)
                                                     ELSE setter_calls
                                  /\ IF CursorIsNone(got)
                                     THEN Return(pages_fetched + 1,
                                                 Extend(all_records, recs), "cursor_missing")
                                     ELSE UNCHANGED <<rpc, run, results>>
    /\ UNCHANGED <<pagination, has_getter, has_setter, page, offset>>
    /\ UNCHANGED <<mode, identifiers, delay_ms, method, hpc, idx, h_all_records, pass_log>>

(***************************************************************************)
(* run_pagination driven directly (its own contract, without a handler).   *)
(***************************************************************************)
BaseParamsSet == {EmptyDict, [q |-> "x"], [cursor |-> "old", q |-> "x"]}

EngineIdle ==
    /\ params = EmptyDict
    /\ all_records = <<>>
    /\ pages_fetched = 0
    /\ page = 0
    /\ offset = 0
    /\ cursor = None
    /\ it = 0
    /\ rpc = "idle"
    /\ run = None
    /\ results = 0
    /\ cursor_holder = None
    /\ setter_calls = <<>>

InitEngine ==
    /\ pagination \in Paginations \ {NoPagination}
    /\ base_params \in BaseParamsSet
    /\ has_getter \in (IF pagination.type = "cursor" THEN BOOLEAN ELSE {FALSE})
    /\ has_setter \in (IF pagination.type = "cursor" THEN BOOLEAN ELSE {FALSE})
    /\ EngineIdle
    /\ mode = "engine"
    /\ identifiers = <<>>
    /\ delay_ms = 0
    /\ method = "GET"
    /\ hpc = "engine"
    /\ idx = 0
    /\ h_all_records = <<>>
    /\ trace = <<>>
    /\ pass_log = <<>>
    /\ events = <<>>
    /\ HttpIdle
    /\ FnIdle

\* the call run_pagination(pagination=..., fetch_page=..., base_params=..., ...)
EngineCall ==
    /\ mode = "engine"
    /\ rpc = "idle"
    /\ RunStart(pagination, base_params, has_getter, has_setter)
    /\ UNCHANGED <<cursor_holder, handlerVars, events>>

EngineStep ==
    \/ \E out \in Outcomes : PageParamIter(out)
    \/ PageParamEnd
    \/ \E out \in Outcomes : OffsetIter(out)
    \/ \E out \in Outcomes : CursorIter(out)
    \/ MaxPagesEnd

NextEngine == (EngineCall \/ EngineStep) /\ UNCHANGED <<httpVars, fnVars>>

SpecEngine == InitEngine /\ [][NextEngine]_vars

(***************************************************************************)
(* api/analyze.py: the three handlers.  A request is validated by its      *)
(* schema (schemas/requests.py, schemas/pagination.py), then the batch     *)
(* loop runs one pass per identifier.                                      *)
(***************************************************************************)
IdPool == <<"a", "b", "c", "d">>
IdentifierLists == {SubSeq(IdPool, 1, k) : k \in 0..MaxIds}

\* the pagination objects a request body is drawn from: every page range, and for
\* the other fields the values on both sides of each schema constraint
RequestPaginations ==
    {NoPagination}
    \cup {PageParamPagination(s, e) : s \in 0..MaxPage, e \in 0..MaxPage}
    \cup {OffsetPagination(l, m, o) : l \in {0, 1}, m \in 0..MaxPagesBound, o \in {-1, 0}}
    \cup {CursorPagination(m, c) : m \in 0..MaxPagesBound, c \in {None, "c1"}}

\* a fetch outside run_pagination carries no cursor
SingleOutcomes ==
    {o \in HandlerOutcomes : o.next = None}
    \* an error page that holds a record
    \cup {[raised |-> FALSE, n |-> 1, next |-> None, status_ok |-> FALSE]}

InitRequest ==
    /\ mode \in {"document", "xhr", "selenium"}
    /\ pagination \in RequestPaginations
    /\ identifiers \in IdentifierLists
    /\ delay_ms \in {0, 500}
    /\ method \in (IF mode = "xhr" THEN {"GET", "POST"} ELSE {"GET"})
    /\ base_params = EmptyDict
    /\ has_getter = FALSE
    /\ has_setter = FALSE
    /\ EngineIdle
    /\ hpc = "received"
    /\ idx = 0
    /\ h_all_records = <<>>
    /\ trace = <<>>
    /\ pass_log = <<>>
    /\ events = <<>>
    /\ HttpIdle
    /\ FnIdle

\* the first trace entry of a handler
ConfigTrace ==
    CASE mode = "document" -> <<TraceEntry("debug_config", TRUE, None, FALSE)>>
      [] mode = "xhr" -> <<TraceEntry("xhr_config", TRUE, None, FALSE)>>
      [] OTHER -> <<>>

\* the request body is parsed into the request model; a body that breaks a Field
\* constraint is answered 422 and the handler never runs
ValidateRequest ==
    /\ hpc = "received"
    /\ IF ValidPagination(pagination)
       THEN /\ hpc' = "batch"
            /\ idx' = 1
            /\ trace' = ConfigTrace
       ELSE /\ hpc' = "rejected"
            /\ UNCHANGED <<idx, trace>>
    /\ UNCHANGED <<engineVars, mode, identifiers, delay_ms, method, h_all_records,
                   pass_log, events>>

\* mutant: every identifier starts a trace of its own
WithBatchIteration_fresh(tr) ==
    IF CurrentIdentifier # None
    THEN <<TraceEntry("batch_iteration", TRUE, CurrentIdentifier, FALSE)>>
    ELSE tr
\* trace.append(_trace("batch_iteration", ...)) when identifier is not None
WithBatchIteration(tr) ==
    IF CurrentIdentifier # None
    THEN Append(tr, TraceEntry("batch_iteration", TRUE, CurrentIdentifier, FALSE))
    ELSE tr

\* mutant: a pass is added in front of the earlier passes
ExtendAll_front(acc, recs) == recs \o acc
\* all_records.extend(pass_records)
ExtendAll(acc, recs) == acc \o recs

\* mutant: the records a pass accumulated before it raised are kept
PassRecords_partial(failed, recs) == recs
\* what the try block adds: pass_records, or nothing when execute_pass raised
PassRecords(failed, recs) == IF failed THEN <<>> ELSE recs

\* mutant: the batch loop stops at the first pass that raises
NextIdx_abort(failed) == IF failed THEN Len(Identifiers) + 1 ELSE idx + 1
\* the for loop goes on to the next identifier, whatever the pass did
NextIdx(failed) == idx + 1

\* the try/except around execute_pass, the pause between batch items and the
\* step of the loop; tr and ev are the trace and the events as the pass left
\* them, recs what the pass accumulated, failed whether it raised
EndPass(tr, ev, recs, failed) ==
    /\ h_all_records' = ExtendAll(h_all_records, PassRecords(failed, recs))
    /\ trace' = IF failed
                THEN Append(tr, TraceEntry("batch_error", FALSE, CurrentIdentifier, TRUE))
                ELSE tr
    /\ pass_log' = Append(pass_log,
                          [id |-> idx, failed |-> failed,
                           n |-> Len(PassRecords(failed, recs))])
    /\ events' = IF delay_ms > 0 /\ idx < Len(Identifiers)
                 THEN Append(ev, BatchSleepEvent(idx)) ELSE ev
    /\ idx' = NextIdx(failed)
    /\ hpc' = "batch"

InBatchLoop == hpc = "batch" /\ idx <= Len(Identifiers)

\* mutant: an error status is not looked at
StatusIsError_never(out) == FALSE
\* `if fetch.status_code >= 400`
StatusIsError(out) == ~out.status_ok

\* analyze_document: one iteration of the batch loop up to the point where
\* execute_pass returns, raises or enters run_pagination
DocumentPass(out) ==
    /\ mode = "document"
    /\ InBatchLoop
    /\ LET tr0 == WithBatchIteration(trace)
           ev1 == Append(events, FetchEvent(idx, out))
           tr1 == Append(tr0, TraceEntry("fetch_document", out.status_ok, None, FALSE))
           tr2 == tr1 \o <<TraceEntry("extraction_method", TRUE, None, FALSE),
                           TraceEntry("extract_records", out.n > 0, None, FALSE)>>
           preview == PageRecords(idx, 0, out.n)
       IN CASE out.raised ->
                 EndPass(tr0, ev1, <<>>, TRUE) /\ UNCHANGED engineVars
            [] ~out.raised /\ StatusIsError(out) ->
                 /\ EndPass(Append(tr1, TraceEntry("fetch_error", FALSE, None, FALSE)),
                            ev1, <<>>, FALSE)
                 /\ UNCHANGED engineVars
            [] ~out.raised /\ ~StatusIsError(out) /\ out.n = 0 ->
                 EndPass(tr2, ev1, <<>>, FALSE) /\ UNCHANGED engineVars
            [] ~out.raised /\ ~StatusIsError(out) /\ out.n > 0 /\ pagination.type = "none" ->
                 /\ EndPass(Append(tr2, TraceEntry("extract_html_records", TRUE, None, FALSE)),
                            ev1, preview, FALSE)
                 /\ UNCHANGED engineVars
            [] ~out.raised /\ ~StatusIsError(out) /\ out.n > 0
                 /\ pagination.type \in {"offset", "cursor"} ->
                 /\ EndPass(Append(tr2, TraceEntry("pagination_error", FALSE, None, TRUE)),
                            ev1, <<>>, FALSE)
                 /\ UNCHANGED engineVars
            [] ~out.raised /\ ~StatusIsError(out) /\ out.n > 0
                 /\ pagination.type = "page_param" ->
                 /\ RunStart(pagination, EmptyDict, FALSE, FALSE)
                 /\ trace' = tr2
                 /\ events' = ev1
                 /\ hpc' = "pass"
                 /\ UNCHANGED <<cursor_holder, idx, h_all_records, pass_log>>
    /\ UNCHANGED <<mode, identifiers, delay_ms, method>>

\* analyze_xhr without pagination: a whole iteration of the batch loop
XhrSinglePass(out) ==
    /\ mode = "xhr"
    /\ InBatchLoop
    /\ pagination.type = "none"
    /\ LET tr0 == WithBatchIteration(trace)
           ev1 == Append(events, FetchEvent(idx, out))
           tr1 == Append(tr0 \o XhrResponseTrace(out),
                         TraceEntry("xhr_single", TRUE, None, FALSE))
       IN IF out.raised
          THEN EndPass(tr0, ev1, <<>>, TRUE)
          ELSE EndPass(tr1, ev1, PageRecords(idx, 0, out.n), FALSE)
    /\ UNCHANGED <<engineVars, mode, identifiers, delay_ms, method>>

\* analyze_xhr with pagination: the iteration up to the call of run_pagination
XhrPassStart ==
    /\ mode = "xhr"
    /\ InBatchLoop
    /\ pagination.type # "none"
    /\ RunStart(pagination, EmptyDict,
                pagination.type = "cursor", pagination.type = "cursor")
    /\ cursor_holder' = None
    /\ trace' = WithBatchIteration(trace)
    /\ hpc' = "pass"
    /\ UNCHANGED <<mode, identifiers, delay_ms, method, idx, h_all_records, pass_log,
                   events>>

\* run_pagination came back into execute_pass (document, xhr): the pass returns
\* its records, or the exception of fetch_page reaches the batch loop
PaginatedPassEnd ==
    /\ hpc = "pass"
    /\ rpc \in {"returned", "raised"}
    /\ IF rpc = "returned"
       THEN EndPass(Append(trace, TraceEntry("pagination", TRUE, None, FALSE)),
                    events, all_records, FALSE)
       ELSE EndPass(trace, events, all_records, TRUE)
    \* the locals of run_pagination and of execute_pass are gone
    /\ params' = EmptyDict
    /\ all_records' = <<>>
    /\ pages_fetched' = 0
    /\ page' = 0
    /\ offset' = 0
    /\ cursor' = None
    /\ it' = 0
    /\ rpc' = "idle"
    /\ run' = None
    /\ results' = 0
    /\ cursor_holder' = None
    /\ setter_calls' = <<>>
    /\ UNCHANGED <<pagination, base_params, has_getter, has_setter,
                   mode, identifiers, delay_ms, method>>

\* analyze_selenium: a whole iteration of the batch loop.  execute_pass catches
\* what the renderer raises; with pagination it calls run_pagination with
\* positional arguments, which its keyword-only signature refuses (TypeError,
\* caught in execute_pass), so no page is rendered
SeleniumPass(out) ==
    /\ mode = "selenium"
    /\ InBatchLoop
    /\ LET tr0 == WithBatchIteration(trace)
           ev1 == Append(events, FetchEvent(idx, out))
       IN CASE pagination.type = "none" /\ out.raised ->
                 EndPass(Append(tr0, TraceEntry("selenium_extract", FALSE, None, TRUE)),
                         ev1, <<>>, FALSE)
            [] pagination.type = "none" /\ ~out.raised ->
                 EndPass(Append(tr0, TraceEntry("selenium_extract", out.n > 0, None, FALSE)),
                         ev1, PageRecords(idx, 0, out.n), FALSE)
            [] pagination.type \in {"offset", "cursor"} ->
                 EndPass(Append(tr0, TraceEntry("pagination_error", FALSE, None, TRUE)),
                         events, <<>>, FALSE)
            [] pagination.type = "page_param" ->
                 EndPass(Append(tr0, TraceEntry("pagination", FALSE, None, TRUE)),
                         events, <<>>, FALSE)
    /\ UNCHANGED <<engineVars, mode, identifiers, delay_ms, method>>

\* write_records_to_csv(final_records): n records go to a file, or the write
\* raises
CsvEvent(id, n, raised) ==
    [kind |-> "write_csv", id |-> id, params |-> EmptyDict, n |-> n, raised |-> raised,
     next |-> None, sent |-> NoRequest]
\* the AnalyzeResponse returned
ResponseEvent(id, has_data, record_count, csv_url) ==
    [kind |-> "response", id |-> id, params |-> EmptyDict, n |-> record_count,
     raised |-> FALSE, next |-> None, sent |-> NoRequest,
     has_data |-> has_data, csv_url |-> csv_url]

\* mutant: the export is written whatever is left
NothingLeft_never(final) == FALSE
\* `if not final_records`
NothingLeft(final) == final = 0

\* the batch loop is over: records = all_records.  Without records the handler
\* answers at once; otherwise the records are filtered (final of them are
\* left), and when some are left they are written to a CSV file; then the
\* response is built around the trace.  A write that raises leaves the handler
\* without a response
Respond(final, csv_ok) ==
    /\ hpc = "batch"
    /\ idx > Len(Identifiers)
    /\ final <= Len(h_all_records)
    /\ LET filtered == Append(trace, TraceEntry("field_filtering", TRUE, None, FALSE))
       IN IF h_all_records = <<>>
          THEN /\ csv_ok
               /\ hpc' = "done"
               /\ trace' = trace
               /\ events' = Append(events, ResponseEvent(idx, FALSE, 0, FALSE))
          ELSE IF NothingLeft(final)
          THEN /\ csv_ok
               /\ hpc' = "done"
               /\ trace' = filtered
               /\ events' = Append(events, ResponseEvent(idx, FALSE, 0, FALSE))
          ELSE IF csv_ok
          THEN /\ hpc' = "done"
               /\ trace' = Append(filtered, TraceEntry("write_csv", TRUE, None, FALSE))
               /\ events' = events \o <<CsvEvent(idx, final, FALSE),
                                         ResponseEvent(idx, TRUE, final, TRUE)>>
          ELSE /\ hpc' = "error"
               /\ trace' = filtered
               /\ events' = Append(events, CsvEvent(idx, final, TRUE))
    /\ UNCHANGED <<engineVars, mode, identifiers, delay_ms, method, idx, h_all_records,
                   pass_log>>

RequestStep ==
    \/ ValidateRequest
    \/ \E out \in SingleOutcomes : DocumentPass(out)
    \/ \E out \in SingleOutcomes : XhrSinglePass(out)
    \/ XhrPassStart
    \/ \E out \in SingleOutcomes : SeleniumPass(out)
    \/ (hpc = "pass" /\ EngineStep)
    \/ PaginatedPassEnd
    \/ \E final \in {0, 1, Len(h_all_records)}, csv_ok \in BOOLEAN : Respond(final, csv_ok)

NextRequest == RequestStep /\ UNCHANGED <<httpVars, fnVars>>

SpecRequest == InitRequest /\ [][NextRequest]_vars

(***************************************************************************)
(* services/url_safety.py: the SSRF guard.                                 *)
(***************************************************************************)
\* what urlparse reads from a URL: its scheme and its hostname (None: no host)
Url(scheme, host) == [scheme |-> scheme, hostname |-> host]
Urls == {Url(sc, h) : sc \in {"http", "https", "ftp"},
                      h \in {None, "localhost", "example.com"}}

\* addresses: IPv4 as four octets, IPv6 as eight groups
Loopback4 == <<127, 0, 0, 1>>
Loopback6 == <<0, 0, 0, 0, 0, 0, 0, 1>>
AddressPool ==
    {Loopback4, <<10, 0, 0, 5>>, <<169, 254, 169, 254>>, <<224, 0, 0, 1>>,
     <<240, 0, 0, 1>>, <<8, 8, 8, 8>>,
     Loopback6, <<9734, 18176, 0, 0, 0, 0, 0, 4369>>}

\* one entry of the list socket.getaddrinfo returns
AddrInfo(ip) ==
    [family |-> IF Len(ip) = 4 THEN "AF_INET" ELSE "AF_INET6", sockaddr |-> ip]
AddrInfos == {AddrInfo(ip) : ip \in AddressPool}

\* socket.getaddrinfo(host, None): raises gaierror, or returns a list of entries
DnsAnswers ==
    {[asked |-> TRUE, gaierror |-> TRUE, infos |-> <<>>]}
    \cup {[asked |-> TRUE, gaierror |-> FALSE, infos |-> l] :
             l \in UNION {[1..n -> AddrInfos] : n \in 0..MaxAddrs}}

\* the properties of ipaddress.ip_address(ip) read on line 24
IsLoopback(ip) == IF Len(ip) = 4 THEN ip[1] = 127 ELSE ip = Loopback6
IsPrivate(ip) ==
    IF Len(ip) = 4
    THEN \/ ip[1] \in {0, 10, 127}
         \/ ip[1] = 169 /\ ip[2] = 254
         \/ ip[1] = 172 /\ ip[2] \in 16..31
         \/ ip[1] = 192 /\ ip[2] = 168
         \/ ip[1] = 198 /\ ip[2] \in 18..19
         \/ ip[1] \in 240..255
    ELSE \/ ip = Loopback6
         \/ ip[1] \in 64512..65023          \* fc00::/7
         \/ ip[1] \in 65152..65215          \* fe80::/10
IsLinkLocal(ip) ==
    IF Len(ip) = 4 THEN ip[1] = 169 /\ ip[2] = 254 ELSE ip[1] \in 65152..65215
IsMulticast(ip) == IF Len(ip) = 4 THEN ip[1] \in 224..239 ELSE ip[1] \in 65280..65535
IsReserved(ip) == IF Len(ip) = 4 THEN ip[1] \in 240..255 ELSE ip[1] \in 0..255

\* obj.version == 4 and any(ip.startswith(p) for p in _PRIVATE_IP_PREFIXES)
HasPrivatePrefix(ip) ==
    Len(ip) = 4 /\ (ip[1] \in {127, 10} \/ (ip[1] = 192 /\ ip[2] = 168))

\* _is_private_or_local (every address of the pool parses)
IsPrivateOrLocal(ip) ==
    \/ IsLoopback(ip) \/ IsPrivate(ip) \/ IsLinkLocal(ip) \/ IsMulticast(ip)
    \/ IsReserved(ip)
    \/ HasPrivatePrefix(ip)

\* validate_public_http_url: "ok", or the reason of the FetchError
ValidatePublicHttpUrl(u) ==
    CASE u.scheme \notin {"http", "https"} -> "scheme"
      [] u.scheme \in {"http", "https"} /\ u.hostname = None -> "missing_host"
      [] u.scheme \in {"http", "https"} /\ u.hostname = "localhost" -> "localhost"
      [] OTHER -> "ok"

\* the loop over infos: the addresses of the AF_INET and AF_INET6 entries
CollectIps(infos) ==
    LET kept == SelectSeq(infos, LAMBDA e : e.family \in {"AF_INET", "AF_INET6"})
    IN [i \in 1..Len(kept) |-> kept[i].sockaddr]

\* mutant: a host is blocked only when all its addresses are private
AnyPrivateOrLocal_all(ips) == \A i \in 1..Len(ips) : IsPrivateOrLocal(ips[i])
\* any(_is_private_or_local(ip) for ip in ips)
AnyPrivateOrLocal(ips) == \E i \in 1..Len(ips) : IsPrivateOrLocal(ips[i])

\* resolve_and_block_private_hosts after the URL validated, on the answer d of
\* getaddrinfo: "ok", or the reason of the FetchError
CheckResolved(d) ==
    CASE d.gaierror -> "dns_failed"
      [] ~d.gaierror /\ CollectIps(d.infos) = <<>> -> "no_ips"
      [] ~d.gaierror /\ CollectIps(d.infos) # <<>>
           /\ AnyPrivateOrLocal(CollectIps(d.infos)) -> "blocked"
      [] OTHER -> "ok"

(***************************************************************************)
(* services/http_client.py: get_bytes and post_bytes;                      *)
(* services/selenium_runner.py: extract_records_with_selenium.             *)
(***************************************************************************)
TransportErrors == {"timeout", "connection"}       \* requests.RequestException
Statuses == {200, 404, 500}
BodySizes == {0, HttpMaxBytes, HttpMaxBytes + 1}

\* what one requests.get / requests.post does: raise a RequestException, or
\* return a response
AttemptOutcomes ==
    {[failed |-> TRUE, error |-> e, status |-> 0, size |-> 0] : e \in TransportErrors}
    \cup {[failed |-> FALSE, error |-> None, status |-> st, size |-> sz] :
            st \in Statuses, sz \in BodySizes}

\* what one navigation of the browser does: raise, or load the page
NavigateOutcomes ==
    {[failed |-> TRUE, error |-> "webdriver", status |-> 0, size |-> 0],
     [failed |-> FALSE, error |-> None, status |-> 200, size |-> 0]}

AttemptEntry(o) ==
    [kind |-> "attempt", failed |-> o.failed, error |-> o.error, seconds |-> 0,
     status |-> o.status, size |-> o.size]
PauseEntry ==
    [kind |-> "sleep", failed |-> FALSE, error |-> None, seconds |-> RetryPauseS,
     status |-> 0, size |-> 0]
\* resolve_and_block_private_hosts(url) was called and gave this verdict
GuardEntry(verdict) ==
    [kind |-> "guard", failed |-> verdict # "ok", error |-> verdict, seconds |-> 0,
     status |-> 0, size |-> 0]
\* driver.get(url) / driver.refresh()
NavigateEntry(o) ==
    [kind |-> "navigate", failed |-> o.failed, error |-> o.error, seconds |-> 0,
     status |-> 0, size |-> 0]

FetchResult(st, sz) == [kind |-> "FetchResult", status_code |-> st, size |-> sz, cause |-> None]
FetchError(cause) == [kind |-> "FetchError", status_code |-> 0, size |-> 0, cause |-> cause]
\* the record list extract_records_with_selenium returns
Rendered == [kind |-> "records", status_code |-> 0, size |-> 0, cause |-> None]
\* an exception of the browser driver
WebDriverError == [kind |-> "WebDriverException", status_code |-> 0, size |-> 0,
                   cause |-> "webdriver"]

InitHttp ==
    /\ h_method \in {"GET", "POST", "RENDER"}
    /\ h_url \in Urls
    /\ dns = DnsNotAsked
    /\ max_retries \in (IF h_method = "RENDER" THEN {0} ELSE 0..MaxRetries)
    /\ block_private_networks \in BOOLEAN
    /\ attempt = 0
    /\ http_pc = "idle"
    /\ http_log = <<>>
    /\ last_error = None
    /\ http_result = None
    /\ pagination = NoPagination
    /\ base_params = EmptyDict
    /\ has_getter = FALSE
    /\ has_setter = FALSE
    /\ EngineIdle
    /\ mode = "http"
    /\ identifiers = <<>>
    /\ delay_ms = 0
    /\ method = IF h_method = "POST" THEN "POST" ELSE "GET"
    /\ hpc = "http"
    /\ idx = 0
    /\ h_all_records = <<>>
    /\ trace = <<>>
    /\ pass_log = <<>>
    /\ events = <<>>
    /\ FnIdle

\* mutant: the verdict of the guard is not acted upon
GuardRejects_never(verdict) == FALSE
\* resolve_and_block_private_hosts raised
GuardRejects(verdict) == verdict # "ok"

\* the call goes on after the guard, or the guard's FetchError leaves it
AfterGuard(verdict) ==
    /\ http_log' = Append(http_log, GuardEntry(verdict))
    /\ IF GuardRejects(verdict)
       THEN /\ http_pc' = "raised"
            /\ http_result' = FetchError(verdict)
       ELSE /\ http_pc' = "loop"
            /\ UNCHANGED http_result

\* entry of get_bytes / post_bytes / extract_records_with_selenium: the guard,
\* when enabled, then the setup of the loop
HttpCall ==
    /\ http_pc = "idle"
    /\ IF block_private_networks
       THEN IF ValidatePublicHttpUrl(h_url) # "ok"
            THEN /\ AfterGuard(ValidatePublicHttpUrl(h_url))
                 /\ UNCHANGED dns
            ELSE \E d \in DnsAnswers :
                     /\ dns' = d
                     /\ AfterGuard(CheckResolved(d))
       ELSE /\ http_pc' = "loop"
            /\ UNCHANGED <<http_result, http_log, dns>>
    /\ attempt' = 0
    /\ last_error' = None
    /\ UNCHANGED <<h_method, h_url, max_retries, block_private_networks>>

\* mutant: the last attempt is followed by a pause too
GetShouldRetry_always(a, mr) == a <= mr
\* get_bytes: `if attempt < max_retries`
GetShouldRetry(a, mr) == a < mr

\* post_bytes: `if attempt < max_retries`
PostShouldRetry(a, mr) == a < mr

ShouldRetry(a, mr) ==
    IF h_method = "GET" THEN GetShouldRetry(a, mr) ELSE PostShouldRetry(a, mr)

\* mutant: a body of exactly the cap is refused
TooLarge_ge(sz) == sz >= HttpMaxBytes
\* `len(content) > settings.http_max_bytes`
TooLarge(sz) == sz > HttpMaxBytes

\* mutant: a response with an error status counts as a failed attempt
IsTransportFailure_status(o) == o.failed \/ o.status >= 400
\* requests.get / requests.post raised a RequestException (a response, whatever
\* its status, is none)
IsTransportFailure(o) == o.failed

\* one iteration of `for attempt in range(max_retries + 1)`
Attempt(o) ==
    /\ http_pc = "loop"
    /\ attempt <= max_retries
    /\ IF ~IsTransportFailure(o)
       THEN \* a response: the size check, then the return; FetchError is no
            \* RequestException, so the except clause lets it through
            /\ http_log' = Append(http_log, AttemptEntry(o))
            /\ IF TooLarge(o.size)
               THEN http_pc' = "raised" /\ http_result' = FetchError("too_large")
               ELSE http_pc' = "returned" /\ http_result' = FetchResult(o.status, o.size)
            /\ UNCHANGED <<attempt, last_error>>
       ELSE \* except requests.RequestException as exc
            /\ last_error' = o.error
            /\ IF ShouldRetry(attempt, max_retries)
               THEN /\ http_log' = http_log \o <<AttemptEntry(o), PauseEntry>>
                    /\ attempt' = attempt + 1
                    /\ IF attempt + 1 <= max_retries
                       THEN UNCHANGED <<http_pc, http_result>>
                       ELSE \* the loop is over: the raise after it
                            /\ http_pc' = "raised"
                            /\ http_result' = FetchError(o.error)
               ELSE /\ http_log' = Append(http_log, AttemptEntry(o))
                    /\ http_pc' = "raised"
                    /\ http_result' = FetchError(o.error)
                    /\ UNCHANGED attempt
    /\ UNCHANGED <<h_method, h_url, dns, max_retries, block_private_networks>>

GetBytesAttempt(o) == h_method = "GET" /\ Attempt(o)
PostBytesAttempt(o) == h_method = "POST" /\ Attempt(o)

\* extract_records_with_selenium after the guard: with cookies the first load and
\* the refresh sit in a try block that swallows what they raise; without, what
\* driver.get raises leaves the function
RenderNavigate(o, cookies) ==
    /\ h_method = "RENDER"
    /\ http_pc = "loop"
    /\ IF cookies
       THEN /\ http_log' = http_log \o (IF o.failed THEN <<NavigateEntry(o)>>
                                        ELSE <<NavigateEntry(o), NavigateEntry(o)>>)
            /\ http_pc' = "returned"
            /\ http_result' = Rendered
       ELSE /\ http_log' = Append(http_log, NavigateEntry(o))
            /\ http_pc' = IF o.failed THEN "raised" ELSE "returned"
            /\ http_result' = IF o.failed THEN WebDriverError ELSE Rendered
    /\ UNCHANGED <<h_method, h_url, dns, max_retries, block_private_networks, attempt,
                   last_error>>

NextHttp ==
    /\ \/ HttpCall
       \/ \E o \in AttemptOutcomes : GetBytesAttempt(o)
       \/ \E o \in AttemptOutcomes : PostBytesAttempt(o)
       \/ \E o \in NavigateOutcomes, c \in BOOLEAN : RenderNavigate(o, c)
    /\ UNCHANGED <<engineVars, handlerVars, events, fnVars>>

SpecHttp == InitHttp /\ [][NextHttp]_vars

(***************************************************************************)
(* The rest of the program stands still while a function is called on its  *)
(* own.                                                                    *)
(***************************************************************************)
ProgramIdle ==
    /\ pagination = NoPagination
    /\ base_params = EmptyDict
    /\ has_getter = FALSE
    /\ has_setter = FALSE
    /\ EngineIdle
    /\ mode = "function"
    /\ identifiers = <<>>
    /\ delay_ms = 0
    /\ method = "GET"
    /\ hpc = "function"
    /\ idx = 0
    /\ h_all_records = <<>>
    /\ trace = <<>>
    /\ pass_log = <<>>
    /\ events = <<>>
    /\ HttpIdle

(***************************************************************************)
(* api/analyze.py: _inject_identifier and the head of the batch loop of    *)
(* analyze_xhr.  A dict is an object: heap[a] is the dict at address a, a  *)
(* value is a str or the address of a dict, and address 0 is None.         *)
(***************************************************************************)
Str(x) == [s |-> x, ref |-> 0]
Ref(a) == [s |-> "", ref |-> a]
\* isinstance(v, dict)
IsDictValue(v) == v.ref # 0

\* a new dict object
Alloc(h, d) == [heap |-> Append(h, d), addr |-> Len(h) + 1]
\* d[k] = v on the dict at address a
SetItem(h, a, k, v) == [h EXCEPT ![a] = DictSet(h[a], k, v)]

\* dict(payload.params): a new dict with the same values
ShallowCopy(h, a) == Alloc(h, h[a])

\* mutant: the copy shares the nested dicts with the original
DeepCopy_shallow(h, a) == Alloc(h, h[a])

RECURSIVE DeepCopyItems(_, _, _, _)
RECURSIVE DeepCopy(_, _)
\* the items of src under the keys ks, copied into acc
DeepCopyItems(h, src, ks, acc) ==
    IF ks = {} THEN [heap |-> h, dict |-> acc]
    ELSE LET k == CHOOSE x \in ks : TRUE
         IN IF IsDictValue(src[k])
            THEN LET c == DeepCopy(h, src[k].ref)
                 IN DeepCopyItems(c.heap, src, ks \ {k}, DictSet(acc, k, Ref(c.addr)))
            ELSE DeepCopyItems(h, src, ks \ {k}, DictSet(acc, k, src[k]))
\* copy.deepcopy(d)
DeepCopy(h, a) ==
    LET r == DeepCopyItems(h, h[a], DOMAIN h[a], EmptyDict)
    IN Alloc(r.heap, r.dict)

\* a URL is a sequence of pieces of text; f"{{{var_name}}}" is three of them
Token(var_name) == <<"{", var_name, "}">>

\* mutant: only the first occurrence is replaced
Replace_first(str, old, new) ==
    IF \E i \in 1..(Len(str) - Len(old) + 1) : SubSeq(str, i, i + Len(old) - 1) = old
    THEN LET i == CHOOSE i \in 1..(Len(str) - Len(old) + 1) :
                      /\ SubSeq(str, i, i + Len(old) - 1) = old
                      /\ \A j \in 1..(i - 1) : SubSeq(str, j, j + Len(old) - 1) # old
         IN SubSeq(str, 1, i - 1) \o new \o SubSeq(str, i + Len(old), Len(str))
    ELSE str
RECURSIVE Replace(_, _, _)
\* str.replace(old, new): every occurrence, scanning from the left
Replace(str, old, new) ==
    IF Len(str) < Len(old) THEN str
    ELSE IF SubSeq(str, 1, Len(old)) = old
         THEN new \o Replace(SubSeq(str, Len(old) + 1, Len(str)), old, new)
         ELSE <<str[1]>> \o Replace(Tail(str), old, new)

\* the `if new_body:` block
InjectBody(h, b, identifier, var_name) ==
    IF b = 0 \/ DOMAIN h[b] = {} THEN h
    ELSE LET h1 == IF var_name \in DOMAIN h[b]
                   THEN SetItem(h, b, var_name, Str(identifier)) ELSE h
         IN IF /\ "variables" \in DOMAIN h1[b]
               /\ IsDictValue(h1[b]["variables"])
               /\ var_name \in DOMAIN h1[h1[b]["variables"].ref]
            THEN SetItem(h1, h1[b]["variables"].ref, var_name, Str(identifier))
            ELSE h1

\* _inject_identifier: the heap after the call and what it returns
InjectIdentifier(h, identifier, var_name, url, p_in, b_in) ==
    LET new_url == Replace(url, Token(var_name), <<identifier>>)
        c1 == DeepCopy(h, p_in)
        h1 == IF var_name \in DOMAIN c1.heap[c1.addr]
              THEN SetItem(c1.heap, c1.addr, var_name, Str(identifier)) ELSE c1.heap
        c2 == IF b_in # 0 THEN DeepCopy(h1, b_in) ELSE [heap |-> h1, addr |-> 0]
    IN [heap |-> InjectBody(c2.heap, c2.addr, identifier, var_name),
        url |-> new_url, params |-> c1.addr, body |-> c2.addr]

\* ---- the requests the loop is run on
StrDicts(K) == {[k \in S |-> Str("x")] : S \in SUBSET K}
ParamDicts == StrDicts({"id", "q"})
\* a body whose "variables" is the dict at address a
NestedBodies(a) ==
    {[k \in S \cup {"variables"} |-> IF k = "variables" THEN Ref(a) ELSE Str("x")] :
        S \in SUBSET {"id", "q"}}
\* payload.params is the dict at address 1, payload.body (when not None) the dict
\* at address 2 and its "variables" object the dict at address 3
PayloadObjects ==
    {[heap |-> <<p>>, params |-> 1, body |-> 0] : p \in ParamDicts}
    \cup {[heap |-> <<p, b>>, params |-> 1, body |-> 2] :
             p \in ParamDicts, b \in StrDicts({"id", "variables"})}
    \cup {[heap |-> <<p, b, v>>, params |-> 1, body |-> 2] :
             p \in ParamDicts, b \in NestedBodies(3),
             v \in StrDicts({"id", "q", "variables"})}
FullPayload ==
    [heap |-> <<[k \in {"id", "q"} |-> Str("x")],
                [k \in {"id", "q", "variables"} |->
                    IF k = "variables" THEN Ref(3) ELSE Str("x")],
                [k \in {"id", "q", "variables"} |-> Str("x")]>>,
     params |-> 1, body |-> 2]

UrlPieces == {"{", "id", "}"}
UrlStrings == UNION {[1..n -> UrlPieces] : n \in 0..MaxUrlLen}
VarNames == {"id", "variables"}

\* the value of a body: its items, the nested dicts replaced by a mark, and the
\* items of its "variables" object
BodyValue(h, b) ==
    IF b = 0 THEN [none |-> TRUE, top |-> EmptyDict, variables |-> EmptyDict]
    ELSE [none |-> FALSE,
          top |-> [k \in DOMAIN h[b] |-> IF IsDictValue(h[b][k]) THEN Ref(1) ELSE h[b][k]],
          variables |-> IF "variables" \in DOMAIN h[b] /\ IsDictValue(h[b]["variables"])
                        THEN h[h[b]["variables"].ref] ELSE EmptyDict]

\* the request: its fields, and the values params and body had on arrival
XhrPayload(u, v, ids, po) ==
    [api_url |-> u, batch_variable_name |-> v, batch_identifiers |-> ids,
     params |-> po.params, body |-> po.body,
     params0 |-> po.heap[po.params], body0 |-> BodyValue(po.heap, po.body)]

InitInject ==
    /\ fn = "inject"
    /\ \E v \in VarNames, ids \in IdentifierLists :
           \/ \E u \in UrlStrings :
                  /\ fn_args = XhrPayload(u, v, ids, FullPayload)
                  /\ heap = FullPayload.heap
           \/ \E po \in PayloadObjects :
                  /\ fn_args = XhrPayload(Token("id"), v, ids, po)
                  /\ heap = po.heap
    /\ fn_ret = <<>>
    /\ ProgramIdle

\* identifiers = payload.batch_identifiers or [None]
BatchIdentifiers == IF fn_args.batch_identifiers = <<>> THEN <<None>>
                    ELSE fn_args.batch_identifiers

\* one iteration of the batch loop of analyze_xhr, up to the call of
\* execute_pass: what is handed to the pass is appended to fn_ret
InjectStep ==
    /\ fn = "inject"
    /\ Len(fn_ret) < Len(BatchIdentifiers)
    /\ LET identifier == BatchIdentifiers[Len(fn_ret) + 1]
           cp == ShallowCopy(heap, fn_args.params)
           r == IF identifier # None
                THEN InjectIdentifier(cp.heap, identifier, fn_args.batch_variable_name,
                                      fn_args.api_url, cp.addr, fn_args.body)
                ELSE [heap |-> cp.heap, url |-> fn_args.api_url, params |-> cp.addr,
                      body |-> fn_args.body]
       IN /\ heap' = r.heap
          /\ fn_ret' = Append(fn_ret, [identifier |-> identifier, url |-> r.url,
                                       params |-> r.params, body |-> r.body])
    /\ UNCHANGED <<fn, fn_args>>

NextInject == InjectStep /\ UNCHANGED <<engineVars, handlerVars, events, httpVars>>

SpecInject == InitInject /\ [][NextInject]_vars

(***************************************************************************)
(* services/json_extract.py: extract_records_from_json.  A JSON value is a *)
(* dict, a list or a scalar; items holds the members in order, each with   *)
(* its key (dict) or "" (list).                                            *)
(***************************************************************************)
KeyNames == <<"k0", "k1", "k2", "k3", "k4", "k5", "k6", "k7">>
PathKeys == <<".k0", ".k1", ".k2", ".k3", ".k4", ".k5", ".k6", ".k7">>
\* f"[{idx}]" for the indexes a list is expanded over, and the next one
PathIndexes == [i \in 1..(ListSlice + 1) |-> "[" \o ToString(i - 1) \o "]"]

Scalar == [t |-> "scalar", items |-> <<>>]
JsonDict(vals) == [t |-> "dict", items |-> [i \in 1..Len(vals) |-> [k |-> KeyNames[i], v |-> vals[i]]]]
JsonList(vals) == [t |-> "list", items |-> [i \in 1..Len(vals) |-> [k |-> "", v |-> vals[i]]]]
Values(node) == [i \in 1..Len(node.items) |-> node.items[i].v]

\* the JSON values of exactly n nodes, and the sequences of values of m nodes
RECURSIVE TreesWith(_, _)
RECURSIVE ForestsWith(_, _)
TreesWith(n, leaves) ==
    IF n = 1 THEN leaves
    ELSE {JsonDict(f) : f \in ForestsWith(n - 1, leaves)}
         \cup {JsonList(f) : f \in ForestsWith(n - 1, leaves)}
ForestsWith(m, leaves) ==
    IF m = 0 THEN {<<>>}
    ELSE UNION {{<<t>> \o f : t \in TreesWith(k, leaves), f \in ForestsWith(m - k, leaves)}
                : k \in 1..m}
TreesOf(n) == TreesWith(n, {Scalar, JsonDict(<<>>)})
\* the JSON values of at most n nodes
JsonPayloads(n) == UNION {TreesOf(k) : k \in 1..n}
\* the same with the empty array as a value, of at most n - 2 nodes
PayloadsWithEmptyArrays(n) ==
    UNION {TreesWith(k, {Scalar, JsonDict(<<>>), JsonList(<<>>)}) : k \in 1..(n - 2)}

\* mutant: an empty object is no record
IsRecord_nonempty(obj) == obj.t = "dict" /\ obj.items # <<>>
\* _is_record
IsRecord(obj) == obj.t = "dict"

\* _is_list_of_records
IsListOfRecords(obj) ==
    /\ obj.t = "list"
    /\ obj.items # <<>>
    /\ \A i \in 1..Len(obj.items) : IsRecord(obj.items[i].v)

JsonRecordsResult(records, path) == [found |-> TRUE, records |-> records, path |-> path]
\* the function returns None
NoResult == [found |-> FALSE, records |-> <<>>, path |-> <<>>]

\* mutant: a list is expanded over all its elements
FirstItems_all(node) == node.items
\* node[:50]
FirstItems(node) == SubSeq(node.items, 1, IF Len(node.items) < ListSlice
                                          THEN Len(node.items) ELSE ListSlice)

\* mutant: a later candidate of the same length replaces the best one
IsBetter_ge(candidate, best) ==
    ~best.found \/ Len(candidate.records) >= Len(best.records)
\* `best is None or len(candidate.records) > len(best.records)`
IsBetter(candidate, best) ==
    ~best.found \/ Len(candidate.records) > Len(best.records)

\* what the loop appends to the queue for a node that is no list of records
Children(node, path) ==
    CASE node.t = "dict" ->
             [i \in 1..Len(node.items) |->
                 [node |-> node.items[i].v, path |-> Append(path, PathKeys[i])]]
      [] node.t = "list" ->
             [i \in 1..Len(FirstItems(node)) |->
                 [node |-> node.items[i].v, path |-> Append(path, PathIndexes[i])]]
      [] OTHER -> <<>>

\* what the loop does to the queue, as the events of the call
Dequeued(path) == [kind |-> "popleft", path |-> path]
Enqueued(entries) == [i \in 1..Len(entries) |-> [kind |-> "append", path |-> entries[i].path]]

\* `while queue and visited < 500` is left
LoopEnds(st) == st.queue = <<>> \/ st.visited >= MaxVisited

\* one pass through the body of the loop: lines 37-51
LoopBody(st) ==
    LET node == Head(st.queue).node
        path == Head(st.queue).path
        candidate == JsonRecordsResult(Values(node), path)
        popped == Append(st.log, Dequeued(path))
    IN IF IsListOfRecords(node)
       THEN [queue |-> Tail(st.queue), visited |-> st.visited + 1,
             best |-> IF IsBetter(candidate, st.best) THEN candidate ELSE st.best,
             log |-> popped]
       ELSE [queue |-> Tail(st.queue) \o Children(node, path), visited |-> st.visited + 1,
             best |-> st.best,
             log |-> popped \o Enqueued(Children(node, path))]

RECURSIVE Passes(_, _)
\* the state after at most n passes, the passes split in halves
Passes(st, n) ==
    IF LoopEnds(st) \/ n = 0 THEN st
    ELSE IF n = 1 THEN LoopBody(st)
    ELSE Passes(Passes(st, n \div 2), n - (n \div 2))

RECURSIVE TreeSize(_)
\* the number of values in a payload; every pass takes one of them from the
\* queue and none comes twice, so the loop makes no more passes than that
TreeSize(node) ==
    LET sizes == [i \in 1..Len(Values(node)) |-> TreeSize(Values(node)[i])]
        sum[i \in 0..Len(sizes)] == IF i = 0 THEN 0 ELSE sum[i - 1] + sizes[i]
    IN 1 + sum[Len(sizes)]

\* the loop of lines 36-51: best when it ends, and the log of its queue
\* operations
SearchLoop(root, visited, best, log) ==
    Passes([queue |-> <<root>>, visited |-> visited, best |-> best, log |-> log],
           TreeSize(root.node))

\* the search from the root: lines 32-51
Search(payload) == SearchLoop([node |-> payload, path |-> <<"$">>], 0, NoResult, <<>>)
\* the code reaches the loop
Searches(payload) == ~IsListOfRecords(payload) /\ payload.t \in {"dict", "list"}

\* extract_records_from_json
\* mutant: the empty object is a single record too
IsSingleRecord_any(payload) == payload.t = "dict"
\* `isinstance(payload, dict) and payload`
IsSingleRecord(payload) == payload.t = "dict" /\ payload.items # <<>>

ExtractRecordsFromJson(payload) ==
    IF IsListOfRecords(payload) THEN JsonRecordsResult(Values(payload), <<"$">>)
    ELSE IF payload.t \notin {"dict", "list"} THEN NoResult
    ELSE LET best == Search(payload).best
         IN IF best.found THEN best
            ELSE IF IsSingleRecord(payload)
                 THEN JsonRecordsResult(<<payload>>, <<"$">>)
                 ELSE NoResult

\* a list of n values, all scalars but the one at position at, which holds a
\* list of one record under a key
WidePayload(n, at) ==
    JsonList([i \in 1..n |-> IF i = at THEN JsonDict(<<JsonList(<<JsonDict(<<>>)>>)>>)
                             ELSE Scalar])
\* a list of lists that hold m scalars together, followed by an object that
\* holds a list of one record: the loop takes that list from the queue as
\* node number m + 13
FilledPayload(m) ==
    LET rows == 10
        size(r) == IF m - (r - 1) * ListSlice > ListSlice THEN ListSlice
                   ELSE IF m - (r - 1) * ListSlice < 0 THEN 0
                   ELSE m - (r - 1) * ListSlice
    IN JsonList([r \in 1..(rows + 1) |->
                    IF r <= rows THEN JsonList([i \in 1..size(r) |-> Scalar])
                    ELSE JsonDict(<<JsonList(<<JsonDict(<<>>)>>)>>)])
\* the payloads on which the limits of the search bind or just do not
BoundaryPayloads ==
    {WidePayload(ListSlice + 1, at) : at \in {ListSlice, ListSlice + 1}}
    \cup {FilledPayload(m) : m \in {MaxVisited - 13, MaxVisited - 12}}

InitJson ==
    /\ fn = "extract_records_from_json"
    /\ fn_args \in {[payload |-> t] : t \in JsonPayloads(MaxNodes) \cup PayloadsWithEmptyArrays(MaxNodes)
                                         \cup BoundaryPayloads}
    /\ fn_ret = <<>>
    /\ heap = <<>>
    /\ ProgramIdle

JsonExtract ==
    /\ fn = "extract_records_from_json"
    /\ fn_ret = <<>>
    /\ fn_ret' = <<ExtractRecordsFromJson(fn_args.payload)>>
    /\ events' = IF Searches(fn_args.payload) THEN Search(fn_args.payload).log ELSE <<>>
    /\ UNCHANGED <<fn, fn_args, heap>>

NextJson == JsonExtract /\ UNCHANGED <<engineVars, handlerVars, httpVars>>

SpecJson == InitJson /\ [][NextJson]_vars

(***************************************************************************)
(* services/field_filter.py.  A field name is a sequence of characters.    *)
(***************************************************************************)
\* ord(ch) of the characters in use
CodePoint ==
    (" " :> 32) @@ ("-" :> 45) @@ ("7" :> 55) @@ ("A" :> 65) @@ ("C" :> 67)
    @@ ("N" :> 78) @@ ("_" :> 95) @@ ("a" :> 97) @@ ("b" :> 98) @@ ("c" :> 99) @@ ("e" :> 101) @@ ("m" :> 109)
    @@ ("n" :> 110) @@ ("o" :> 111) @@ ("p" :> 112) @@ ("y" :> 121)

\* mutant: the name is not lowercased
Lower_id(ch) == ch
\* str.lower(), one character
Lower(ch) ==
    CASE ch = "A" -> "a"
      [] ch = "C" -> "c"
      [] ch = "N" -> "n"
      [] OTHER -> ch

\* the characters the class [a-z0-9] holds
IsLowerAlnum(ch) ==
    \/ CodePoint[ch] \in CodePoint["a"]..(CodePoint["a"] + 25)
    \/ CodePoint[ch] \in (CodePoint["7"] - 7)..(CodePoint["7"] + 2)

\* normalize_field_name: name.lower(), then re.sub(r"[^a-z0-9]", "", name)
NormalizeFieldName(name) ==
    LET lowered == [i \in 1..Len(name) |-> Lower(name[i])]
    IN SelectSeq(lowered, IsLowerAlnum)

\* the order of str: by code point, character after character
RECURSIVE StrLeq(_, _)
StrLeq(a, b) ==
    IF a = <<>> THEN TRUE
    ELSE IF b = <<>> THEN FALSE
    ELSE IF a[1] = b[1] THEN StrLeq(Tail(a), Tail(b))
    ELSE CodePoint[a[1]] < CodePoint[b[1]]

RECURSIVE Sorted(_)
\* sorted(all_fields)
Sorted(S) ==
    IF S = {} THEN <<>>
    ELSE LET least == CHOOSE x \in S : \A y \in S : StrLeq(x, y)
         IN <<least>> \o Sorted(S \ {least})

\* the loop `for record in records: all_fields.update(record.keys())`
AllFields(records) == UNION {DOMAIN records[i] : i \in 1..Len(records)}

FieldMatchResult(matched, unmatched, available) ==
    [matched_fields |-> matched, unmatched_requested |-> unmatched,
     all_available_fields |-> available]

\* a in b, on str
IsSubstring(a, b) == \E i \in 1..(Len(b) - Len(a) + 1) : SubSeq(b, i, i + Len(a) - 1) = a

\* len(field) < len(normalized_to_actual[norm])
Shorter(field, held) == Len(field) < Len(held)

\* normalized_to_actual, a dict in insertion order: the loop over
\* all_fields_list
RECURSIVE NormalizedToActual(_, _)
NormalizedToActual(fields, k) ==
    IF k = 0 THEN <<>>
    ELSE LET before == NormalizedToActual(fields, k - 1)
             norm == NormalizeFieldName(fields[k])
             at == {i \in 1..Len(before) : before[i].norm = norm}
         IN IF at = {} THEN Append(before, [norm |-> norm, actual |-> fields[k]])
            ELSE LET i == CHOOSE i \in at : TRUE
                 IN IF Shorter(fields[k], before[i].actual)
                    THEN [before EXCEPT ![i].actual = fields[k]]
                    ELSE before

\* the loop `for req in requested_fields` after k requests: matched (a dict)
\* and unmatched (a list)
RECURSIVE MatchLoop(_, _, _)
MatchLoop(n2a, requested, k) ==
    IF k = 0 THEN [matched |-> EmptyDict, unmatched |-> <<>>]
    ELSE LET before == MatchLoop(n2a, requested, k - 1)
             req == requested[k]
             req_norm == NormalizeFieldName(req)
             exact == {i \in 1..Len(n2a) : n2a[i].norm = req_norm}
             partial == {i \in 1..Len(n2a) : \/ IsSubstring(req_norm, n2a[i].norm)
                                              \/ IsSubstring(n2a[i].norm, req_norm)}
         IN IF req_norm = <<>> THEN before
            ELSE IF exact # {}
            THEN [before EXCEPT
                    !.matched = DictSet(@, req, n2a[CHOOSE i \in exact : TRUE].actual)]
            ELSE IF partial # {}
            THEN [before EXCEPT
                    !.matched = DictSet(@, req,
                        n2a[CHOOSE i \in partial : \A j \in partial : i <= j].actual)]
            ELSE [before EXCEPT !.unmatched = Append(@, req)]

\* match_requested_fields
MatchRequestedFields(records, requested) ==
    IF records = <<>> THEN FieldMatchResult(EmptyDict, requested, <<>>)
    ELSE LET all_fields_list == Sorted(AllFields(records))
             n2a == NormalizedToActual(all_fields_list, Len(all_fields_list))
             m == MatchLoop(n2a, requested, Len(requested))
         IN FieldMatchResult(m.matched, m.unmatched, all_fields_list)

\* mutant: an empty request list is matched like any other
NothingRequested_never(requested) == FALSE
\* `if not requested_fields`
NothingRequested(requested) == requested = <<>>

\* mutant: the record is kept whole
Restrict_all(record, keep) == record
\* {k: v for k, v in record.items() if k in fields_to_keep}
Restrict(record, keep) == [k \in (DOMAIN record) \cap keep |-> record[k]]

\* filter_records_by_fields: the records and the FieldMatchResult it returns
FilterRecordsByFields(records, requested) ==
    IF NothingRequested(requested)
    THEN [records |-> records,
          result |-> FieldMatchResult(EmptyDict, <<>>, Sorted(AllFields(records)))]
    ELSE LET match_result == MatchRequestedFields(records, requested)
             matched == match_result.matched_fields
             fields_to_keep == {matched[r] : r \in DOMAIN matched}
             restricted == [i \in 1..Len(records) |-> Restrict(records[i], fields_to_keep)]
         IN IF DOMAIN matched = {}
            THEN [records |-> <<>>, result |-> match_result]
            ELSE [records |-> SelectSeq(restricted, LAMBDA r : DOMAIN r # {}),
                  result |-> match_result]

\* ---- the arguments the functions are called on
NameChars == {" ", "-", "7", "N", "_", "n"}
Names == UNION {[1..n -> NameChars] : n \in 0..MaxNameLen}
ExampleNames ==
    {<<"C", "o", "m", "p", "a", "n", "y", " ", "N", "a", "m", "e">>,
     <<"c", "o", "m", "p", "a", "n", "y", "_", "n", "a", "m", "e">>,
     <<"c", "o", "m", "p", "a", "n", "y", "N", "a", "m", "e">>}

RecordKeys == {<<"n">>, <<"N">>, <<"_", "7">>}
RecordDicts == UNION {[K -> {"v"}] : K \in SUBSET RecordKeys}
RecordLists == UNION {[1..n -> RecordDicts] : n \in 0..MaxRecs}
RequestedNames == <<<<"n">>, <<"7">>, <<"-">>>>
RequestedLists == {SubSeq(RequestedNames, i, j) : i, j \in 1..Len(RequestedNames)}
\* the call filter_records_by_fields([{"a": "1", "b": "2"}], ["A"])
ExampleRecords == <<(<<"a">> :> "1") @@ (<<"b">> :> "2")>>
ExampleRequest == <<<<"A">>>>
\* the call match_requested_fields([{"a_b": "1", "a_c": "2", "ab": "3"}], ["a"])
CollidingRecords ==
    <<(<<"a", "_", "b">> :> "1") @@ (<<"a", "_", "c">> :> "2") @@ (<<"a", "b">> :> "3")>>
CollidingRequest == <<<<"a">>>>

InitFields ==
    /\ \/ /\ fn = "normalize_field_name"
          /\ fn_args \in {[name |-> x] : x \in Names \cup ExampleNames}
       \/ /\ fn = "filter_records_by_fields"
          /\ fn_args \in {[records |-> r, requested_fields |-> q] :
                             r \in RecordLists, q \in RequestedLists}
                         \cup {[records |-> ExampleRecords,
                                requested_fields |-> ExampleRequest]}
       \/ /\ fn = "match_requested_fields"
          /\ fn_args \in {[records |-> r, requested_fields |-> q] :
                             r \in RecordLists, q \in RequestedLists}
                         \cup {[records |-> CollidingRecords,
                                requested_fields |-> CollidingRequest]}
    /\ fn_ret = <<>>
    /\ heap = <<>>
    /\ ProgramIdle

\* normalize_field_name(name), then normalize_field_name of what it returned
NormalizeCall ==
    /\ fn = "normalize_field_name"
    /\ Len(fn_ret) < 2
    /\ fn_ret' = Append(fn_ret, NormalizeFieldName(IF fn_ret = <<>> THEN fn_args.name
                                                   ELSE fn_ret[1]))
    /\ UNCHANGED <<fn, fn_args, heap>>

FilterCall ==
    /\ fn = "filter_records_by_fields"
    /\ fn_ret = <<>>
    /\ fn_ret' = <<FilterRecordsByFields(fn_args.records, fn_args.requested_fields)>>
    /\ UNCHANGED <<fn, fn_args, heap>>

MatchCall ==
    /\ fn = "match_requested_fields"
    /\ fn_ret = <<>>
    /\ fn_ret' = <<MatchRequestedFields(fn_args.records, fn_args.requested_fields)>>
    /\ UNCHANGED <<fn, fn_args, heap>>

NextFields ==
    /\ NormalizeCall \/ FilterCall \/ MatchCall
    /\ UNCHANGED <<engineVars, handlerVars, events, httpVars>>

SpecFields == InitFields /\ [][NextFields]_vars

(***************************************************************************)
(* services/html_extract.py.  A str is the sequence of its pieces (a word, *)
(* a separator or a blank), a document is the sequence of its top-level    *)
(* elements as the parser built them, and a record is a dict from field    *)
(* names to values.                                                        *)
(***************************************************************************)
\* a str value of a record, and the None a short table row is padded with
TextValue(s) == [none |-> FALSE, s |-> s]
NoneValue == [none |-> TRUE, s |-> <<>>]
\* bool(value) of an Optional[str]
Truthy(v) == ~v.none /\ v.s # <<>>

\* a tag: its name, its class tokens (none: no class attribute), its other
\* attributes in document order, the text it holds itself, its child tags
\* and, for a table, its rows of cells
Element(name, classes, attrs, text, kids, rows) ==
    [name |-> name, classes |-> classes, attrs |-> attrs, text |-> text,
     kids |-> kids, rows |-> rows]
Cell(tag, text) == [tag |-> tag, text |-> text]

\* the pieces that are not of [a-z0-9], and the length of each piece
Separators == {" ", "-", "--", "_", "__", "data-", ".", "["}
PieceLen(p) ==
    CASE p \in {" ", "-", "_", ".", "[", "t"} -> 1
      [] p \in {"--", "__", "A1", "/p"} -> 2
      [] p \in {"sku", "Sku", "row", "pic", "url", "alt", "src", "col"} -> 3
      [] p \in {"card", "link", "text", "href"} -> 4
      [] p \in {"index", "image", "data-"} -> 5
RECURSIVE StrLen(_)
\* len(s)
StrLen(s) == IF s = <<>> THEN 0 ELSE PieceLen(s[1]) + StrLen(Tail(s))

\* str.lower(), one piece
LowerPiece(p) == IF p = "Sku" THEN "sku" ELSE p

RECURSIVE LStripPiece(_, _)
LStripPiece(s, p) == IF s # <<>> /\ s[1] = p THEN LStripPiece(Tail(s), p) ELSE s
Reversed(s) == [i \in 1..Len(s) |-> s[Len(s) + 1 - i]]
\* s.strip(p)
StripPiece(s, p) == Reversed(LStripPiece(Reversed(LStripPiece(s, p)), p))
\* s.strip()
Strip(s) == StripPiece(s, " ")

RECURSIVE Collapse(_)
\* re.sub(r"[^a-z0-9]+", "_", raw)
Collapse(raw) ==
    IF raw = <<>> THEN <<>>
    ELSE LET rest == Collapse(Tail(raw))
         IN IF raw[1] \notin Separators THEN <<raw[1]>> \o rest
            ELSE IF rest # <<>> /\ rest[1] = "_" THEN rest
            ELSE <<"_">> \o rest

\* _clean_key
CleanKey(raw) ==
    LET stripped == Strip(raw)
        lowered == [i \in 1..Len(stripped) |-> LowerPiece(stripped[i])]
    IN StripPiece(Collapse(lowered), "_")

\* class_name.split(sep)[-1]
AfterLast(class_name, sep) ==
    LET at == {i \in 1..Len(class_name) : class_name[i] = sep}
        last == CHOOSE i \in at : \A j \in at : j <= i
    IN SubSeq(class_name, last + 1, Len(class_name))

\* _extract_class_suffix
ExtractClassSuffix(class_name) ==
    IF \E i \in 1..Len(class_name) : class_name[i] = "__"
    THEN CleanKey(AfterLast(class_name, "__"))
    ELSE IF \E i \in 1..Len(class_name) : class_name[i] = "--"
    THEN CleanKey(AfterLast(class_name, "--"))
    ELSE CleanKey(class_name)

\* " ".join(parts) over the parts that are not empty
RECURSIVE JoinText(_)
JoinText(parts) ==
    IF parts = <<>> THEN <<>>
    ELSE LET rest == JoinText(Tail(parts))
         IN IF parts[1] = <<>> THEN rest
            ELSE IF rest = <<>> THEN parts[1]
            ELSE parts[1] \o <<" ">> \o rest

RECURSIVE TextParts(_)
\* the stripped strings of a run of tags, in document order
TextParts(es) ==
    IF es = <<>> THEN <<>>
    ELSE LET e == es[1]
             cells == [i \in 1..Len(e.rows) |->
                          JoinText([j \in 1..Len(e.rows[i]) |-> e.rows[i][j].text])]
         IN <<e.text>> \o TextParts(e.kids) \o cells \o TextParts(Tail(es))

\* _get_element_text: element.get_text(" ", strip=True)
GetElementText(element) == JoinText(TextParts(<<element>>))

\* _get_element_attribute; the attributes read here hold one str, never a list
GetElementAttribute(element, attr) ==
    LET at == {i \in 1..Len(element.attrs) : element.attrs[i].k = attr}
    IN IF at = {} THEN NoneValue
       ELSE LET value == element.attrs[CHOOSE i \in at : TRUE].v
            IN IF value # <<>> THEN TextValue(Strip(value)) ELSE NoneValue

\* a or b
Either(a, b) == IF Truthy(a) THEN a ELSE b

RECURSIVE Preorder(_)
\* the tags of a run of tags and below, in document order
Preorder(es) ==
    IF es = <<>> THEN <<>>
    ELSE <<es[1]>> \o Preorder(es[1].kids) \o Preorder(Tail(es))

\* the selectors soup.select compiles: a type selector or a class selector
ValidSelector(sel) ==
    \/ Len(sel) = 1 /\ sel[1] \notin Separators
    \/ Len(sel) >= 2 /\ sel[1] = "." /\ \A i \in 2..Len(sel) : sel[i] \notin {" ", ".", "["}
SelectorMatches(e, sel) ==
    IF sel[1] = "."
    THEN \E i \in 1..Len(e.classes) : e.classes[i] = Tail(sel)
    ELSE e.name = sel[1]
\* soup.select(css_selector)
Select(html, sel) == SelectSeq(Preorder(html), LAMBDA e : SelectorMatches(e, sel))

IndexKey == <<"_", "index">>
LinkKey == <<"link">>
SrcKey == <<"src">>
AltKey == <<"alt">>
TextKey == <<"text">>

\* strategy 1: the attributes of the element itself
OwnAttributes(record, element) ==
    LET href == GetElementAttribute(element, <<"href">>)
        src == Either(GetElementAttribute(element, <<"src">>),
                      GetElementAttribute(element, <<"data-", "src">>))
        alt == GetElementAttribute(element, <<"alt">>)
        with_src == IF Truthy(src) THEN DictSet(record, SrcKey, src) ELSE record
    IN IF element.name = "a"
       THEN IF Truthy(href) THEN DictSet(record, LinkKey, href) ELSE record
       ELSE IF element.name = "img"
       THEN IF Truthy(alt) THEN DictSet(with_src, AltKey, alt) ELSE with_src
       ELSE record

\* the body of `for cls in classes`
ClassField(record, child, cls) ==
    LET field_name == ExtractClassSuffix(cls)
        text == GetElementText(child)
        href == GetElementAttribute(child, <<"href">>)
        src == Either(GetElementAttribute(child, <<"src">>),
                      GetElementAttribute(child, <<"data-", "src">>))
        alt == GetElementAttribute(child, <<"alt">>)
        r1 == IF text # <<>> /\ field_name \notin DOMAIN record
              THEN DictSet(record, field_name, TextValue(text)) ELSE record
        r2 == IF child.name = "a" /\ Truthy(href)
              THEN DictSet(r1, field_name \o <<"_", "url">>, href) ELSE r1
        r3 == IF child.name = "img" /\ Truthy(src)
              THEN DictSet(r2, field_name \o <<"_", "image">>, src) ELSE r2
        r4 == IF child.name = "img" /\ Truthy(alt)
              THEN DictSet(r3, field_name \o <<"_", "alt">>, alt) ELSE r3
    IN IF field_name # <<>> /\ StrLen(field_name) >= 2 THEN r4 ELSE record

RECURSIVE ClassFields(_, _, _)
\* `for cls in classes` over the first k class tokens of a child
ClassFields(record, child, k) ==
    IF k = 0 THEN record
    ELSE ClassField(ClassFields(record, child, k - 1), child, child.classes[k])

RECURSIVE ChildFields(_, _, _)
\* strategy 2: `for child in element.find_all(True, class_=True)`
ChildFields(record, children, k) ==
    IF k = 0 THEN record
    ELSE ClassFields(ChildFields(record, children, k - 1), children[k],
                     Len(children[k].classes))

RECURSIVE DataAttributes(_, _, _)
\* strategy 3: `for attr, value in element.attrs.items()`
DataAttributes(record, attrs, k) ==
    IF k = 0 THEN record
    ELSE LET before == DataAttributes(record, attrs, k - 1)
             attr == attrs[k].k
             value == attrs[k].v
             field_name == CleanKey(SelectSeq(attr, LAMBDA p : p # "data-"))
         IN IF attr[1] = "data-" /\ value # <<>> /\ field_name # <<>>
            THEN DictSet(before, field_name, TextValue(value))
            ELSE before

\* strategy 4: the full text when only meta keys are there
FullText(record, element) ==
    LET meta_keys == {IndexKey, LinkKey, SrcKey, AltKey}
        has_content_fields == \E k \in DOMAIN record : k \notin meta_keys
        full_text == GetElementText(element)
    IN IF ~has_content_fields /\ full_text # <<>>
       THEN DictSet(record, TextKey, TextValue(full_text))
       ELSE record

\* `if len(record) > 2: record.pop("_index", None)`
DropIndex(record) ==
    IF Cardinality(DOMAIN record) > 2 THEN DictPop(record, IndexKey) ELSE record

\* `if len(record) > 1 or (len(record) == 1 and "_index" not in record)`
HasContent(record) ==
    \/ Cardinality(DOMAIN record) > 1
    \/ Cardinality(DOMAIN record) = 1 /\ IndexKey \notin DOMAIN record

\* the record of the element at position i of enumerate(elements)
ElementRecord(element, i) ==
    LET r0 == DictSet(EmptyDict, IndexKey, i + 1)
        r1 == OwnAttributes(r0, element)
        children == SelectSeq(Preorder(element.kids), LAMBDA c : c.classes # <<>>)
        r2 == ChildFields(r1, children, Len(children))
        r3 == DataAttributes(r2, element.attrs, Len(element.attrs))
    IN DropIndex(FullText(r3, element))

HtmlRecords(records) == [raised |-> FALSE, error |-> None, records |-> records]
SelectorSyntaxError ==
    [raised |-> TRUE, error |-> "SelectorSyntaxError", records |-> <<>>]

\* extract_records_with_selector
ExtractRecordsWithSelector(html, css_selector) ==
    IF ~ValidSelector(css_selector) THEN SelectorSyntaxError
    ELSE LET elements == Select(html, css_selector)
             made == [i \in 1..Len(elements) |-> ElementRecord(elements[i], i - 1)]
         IN HtmlRecords(SelectSeq(made, HasContent))

\* the name a blank header gets, by position
ColumnName(i) == <<"col", "_", <<"1", "2", "3", "4">>[i]>>

\* the records of one table, when it has headers
TableRecords(table) ==
    LET header_row == table.rows[1]
        ths == SelectSeq(header_row, LAMBDA c : c.tag = "th")
        tds == SelectSeq(header_row, LAMBDA c : c.tag = "td")
        found == IF ths # <<>> THEN ths ELSE tds
        headers == [i \in 1..Len(found) |->
                       IF found[i].text # <<>> THEN found[i].text ELSE ColumnName(i)]
        CellsOf(tr) ==
            [i \in 1..(IF Len(tr) < Len(headers) THEN Len(tr) ELSE Len(headers)) |->
                tr[i].text]
        RowOf(cells) ==
            [h \in {headers[i] : i \in 1..Len(headers)} |->
                LET i == CHOOSE i \in 1..Len(headers) :
                             /\ headers[i] = h
                             /\ \A j \in 1..Len(headers) : headers[j] = h => j <= i
                IN IF i <= Len(cells) THEN TextValue(cells[i]) ELSE NoneValue]
        data == Tail(table.rows)
        all_cells == [i \in 1..Len(data) |-> CellsOf(data[i])]
        filled == SelectSeq(all_cells, LAMBDA cells : \E i \in 1..Len(cells) : cells[i] # <<>>)
    IN IF table.rows = <<>> \/ found = <<>> THEN <<>>
       ELSE [i \in 1..Len(filled) |-> RowOf(filled[i])]

\* mutant: a later table of the same size replaces the best one
LargerTable_ge(records, best_len) == Len(records) >= best_len
\* `if len(records) > best_len`
LargerTable(records, best_len) == Len(records) > best_len

RECURSIVE BestTable(_, _)
\* `for table in soup.find_all("table")` over the first k tables: best_records
BestTable(tables, k) ==
    IF k = 0 THEN <<>>
    ELSE LET best_records == BestTable(tables, k - 1)
             records == TableRecords(tables[k])
         IN IF LargerTable(records, Len(best_records)) THEN records ELSE best_records

\* extract_records_from_tables
ExtractRecordsFromTables(html) ==
    LET tables == SelectSeq(Preorder(html), LAMBDA e : e.name = "table")
    IN HtmlRecords(BestTable(tables, Len(tables)))

\* an Optional[str] argument
NoSelector == [none |-> TRUE, s |-> <<>>]
\* mutant: the selector is never used
SelectorGiven_never(css_selector) == FALSE
\* `if css_selector and css_selector.strip()`
SelectorGiven(css_selector) == Truthy(css_selector) /\ Strip(css_selector.s) # <<>>

\* extract_records_from_html
ExtractRecordsFromHtml(html, css_selector) ==
    IF SelectorGiven(css_selector)
    THEN ExtractRecordsWithSelector(html, Strip(css_selector.s))
    ELSE LET table_records == ExtractRecordsFromTables(html)
         IN IF table_records.records # <<>> THEN table_records ELSE HtmlRecords(<<>>)

\* ---- the documents and selectors the function is called on
Attr(k, v) == [k |-> k, v |-> v]
Leaf(name, classes, attrs, text) == Element(name, classes, attrs, text, <<>>, <<>>)
ChildTags ==
    {Leaf("span", <<<<"card", "__", "sku">>>>, <<>>, <<"A1">>),
     Leaf("span", <<<<"t">>>>, <<>>, <<"A1">>),
     Leaf("a", <<<<"Sku">>, <<"row", "--", "sku">>>>, <<Attr(<<"href">>, <<" ", "/p">>)>>, <<>>),
     Leaf("img", <<<<"pic">>>>, <<Attr(<<"data-", "src">>, <<"/p">>), Attr(<<"alt">>, <<"A1">>)>>, <<>>)}
Table(rows) == Element("table", <<>>, <<>>, <<>>, <<>>, rows)
Tables ==
    {Table(<<>>),
     Table(<<<<Cell("th", <<"sku">>), Cell("th", <<>>)>>,
             <<Cell("td", <<"A1">>)>>,
             <<Cell("td", <<>>), Cell("td", <<>>)>>>>),
     Table(<<<<Cell("td", <<"sku">>)>>, <<Cell("td", <<"A1">>), Cell("td", <<"/p">>)>>>>),
     Table(<<<<Cell("th", <<"sku">>)>>, <<Cell("td", <<"A1">>)>>, <<Cell("th", <<"/p">>)>>>>)}
TopTags ==
    {Element("div", <<<<"card">>>>, <<>>, <<>>, <<c>>, <<>>) : c \in ChildTags}
    \cup {Element("div", <<<<"card">>>>, <<Attr(<<"data-", "sku">>, <<"A1">>)>>, <<"A1">>, <<>>, <<>>),
          Leaf("div", <<<<"card">>>>, <<>>, <<>>),
          Leaf("a", <<<<"card">>>>, <<Attr(<<"href">>, <<"/p">>)>>, <<>>),
          Leaf("p", <<>>, <<>>, <<"A1">>)}
    \cup Tables
Documents == UNION {[1..n -> TopTags] : n \in 0..MaxTags}
Selectors ==
    {NoSelector} \cup
    {TextValue(s) : s \in {<<>>, <<" ">>, <<".", "card">>, <<" ", ".", "card", " ">>,
                           <<".", "sku">>, <<"a">>, <<"table">>, <<"[">>}}

InitHtml ==
    /\ fn = "extract_records_from_html"
    /\ fn_args \in {[html |-> d, css_selector |-> s] : d \in Documents, s \in Selectors}
    /\ fn_ret = <<>>
    /\ heap = <<>>
    /\ ProgramIdle

HtmlExtract ==
    /\ fn = "extract_records_from_html"
    /\ fn_ret = <<>>
    /\ fn_ret' = <<ExtractRecordsFromHtml(fn_args.html, fn_args.css_selector)>>
    /\ UNCHANGED <<fn, fn_args, heap>>

NextHtml == HtmlExtract /\ UNCHANGED <<engineVars, handlerVars, events, httpVars>>

SpecHtml == InitHtml /\ [][NextHtml]_vars

(***************************************************************************)
(* services/pagination_config.py.  A value of the configuration dict is    *)
(* None (also what dict.get gives for a missing key), an int or a str.     *)
(***************************************************************************)
NoneV == [kind |-> "none", n |-> 0, s |-> ""]
IntV(n) == [kind |-> "int", n |-> n, s |-> ""]
StrV(x) == [kind |-> "str", n |-> 0, s |-> x]

\* not v
Falsy(v) == v.kind = "none" \/ (v.kind = "int" /\ v.n = 0) \/ (v.kind = "str" /\ v.s = "")

\* v or default
OrElse(v, default) == IF Falsy(v) THEN default ELSE v

\* int(v) of an int or a str: the str values in use are not numerals
IntRaises(v) == v.kind = "str"
\* str(v).strip() of a str or None-replaced value
Stripped(v) == IF v.s = " " THEN "" ELSE v.s

Parsed(spec) == [raised |-> FALSE, error |-> None, spec |-> spec]
ParseError == [raised |-> TRUE, error |-> "ParseError", spec |-> NoPagination]
ValueError == [raised |-> TRUE, error |-> "ValueError", spec |-> NoPagination]

ParsePageParam(cfg) ==
    LET param == Stripped(OrElse(cfg.param, StrV("")))
        start == OrElse(cfg.start, IntV(1))
        end == OrElse(cfg.end, start)
    IN IF IntRaises(start) \/ IntRaises(end) THEN ValueError
       ELSE IF param = "" THEN ParseError
       ELSE IF start.n < 1 \/ end.n < start.n THEN ParseError
       ELSE Parsed([type |-> "page_param", param |-> param,
                    start |-> start.n, end |-> end.n])

ParseOffset(cfg) ==
    LET offset_param == Stripped(OrElse(cfg.offset_param, StrV("")))
        limit_param == Stripped(OrElse(cfg.limit_param, StrV("")))
        limit == OrElse(cfg.limit, IntV(0))
        max_pages == OrElse(cfg.max_pages, IntV(0))
        start_offset == OrElse(cfg.start_offset, IntV(0))
    IN IF IntRaises(limit) \/ IntRaises(max_pages) \/ IntRaises(start_offset)
       THEN ValueError
       ELSE IF offset_param = "" \/ limit_param = "" THEN ParseError
       ELSE IF limit.n < 1 \/ max_pages.n < 1 \/ start_offset.n < 0 THEN ParseError
       ELSE Parsed([type |-> "offset", offset_param |-> offset_param,
                    limit_param |-> limit_param, limit |-> limit.n,
                    max_pages |-> max_pages.n, start_offset |-> start_offset.n])

ParseCursor(cfg, allow_cursor) ==
    LET cursor_param == Stripped(OrElse(cfg.cursor_param, StrV("")))
        cursor_field == Stripped(OrElse(cfg.cursor_field, StrV("")))
        max_pages == OrElse(cfg.max_pages, IntV(10))
        initial_cursor == IF cfg.initial_cursor.kind = "none" THEN None
                          ELSE cfg.initial_cursor.s
    IN IF ~allow_cursor THEN ParseError
       ELSE IF IntRaises(max_pages) THEN ValueError
       ELSE IF cursor_param = "" \/ cursor_field = "" THEN ParseError
       ELSE IF max_pages.n < 1 THEN ParseError
       ELSE Parsed([type |-> "cursor", cursor_param |-> cursor_param,
                    cursor_field |-> cursor_field, max_pages |-> max_pages.n,
                    initial_cursor |-> initial_cursor])

\* parse_pagination(pagination, allow_cursor=...)
ParsePagination(cfg, allow_cursor) ==
    CASE ~cfg.is_dict -> ParseError
      [] cfg.is_dict /\ cfg.type = "page_param" -> ParsePageParam(cfg)
      [] cfg.is_dict /\ cfg.type = "offset" -> ParseOffset(cfg)
      [] cfg.is_dict /\ cfg.type = "cursor" -> ParseCursor(cfg, allow_cursor)
      [] OTHER -> ParseError

\* ---- the configurations the parser is called on
IntValues(lo, hi) == {NoneV, StrV("x")} \cup {IntV(n) : n \in lo..hi}
NameValues(x) == {NoneV, StrV(" "), StrV(x)}
Configs ==
    {[is_dict |-> FALSE, type |-> "page_param"], [is_dict |-> TRUE, type |-> "pages"]}
    \cup {[is_dict |-> TRUE, type |-> "page_param", param |-> p, start |-> a, end |-> b] :
             p \in NameValues("page"), a, b \in IntValues(-1, MaxPage)}
    \cup {[is_dict |-> TRUE, type |-> "offset", offset_param |-> StrV("offset"),
           limit_param |-> p, limit |-> l, max_pages |-> m, start_offset |-> o] :
             p \in NameValues("limit"), l \in IntValues(-1, MaxLimit),
             m \in IntValues(-1, MaxPagesBound), o \in IntValues(-1, MaxStartOffset)}
    \cup {[is_dict |-> TRUE, type |-> "cursor", cursor_param |-> StrV("cursor"),
           cursor_field |-> p, max_pages |-> m, initial_cursor |-> c] :
             p \in NameValues("next"), m \in IntValues(-1, MaxPagesBound),
             c \in {NoneV, StrV("c1")}}

InitParse ==
    /\ fn = "parse_pagination"
    /\ fn_args \in {[pagination |-> c, allow_cursor |-> a] : c \in Configs, a \in BOOLEAN}
    /\ fn_ret = <<>>
    /\ heap = <<>>
    /\ ProgramIdle

ParseCall ==
    /\ fn = "parse_pagination"
    /\ fn_ret = <<>>
    /\ fn_ret' = <<ParsePagination(fn_args.pagination, fn_args.allow_cursor)>>
    /\ UNCHANGED <<fn, fn_args, heap>>

NextParse == ParseCall /\ UNCHANGED <<engineVars, handlerVars, events, httpVars>>

SpecParse == InitParse /\ [][NextParse]_vars

(***************************************************************************)
(* services/json_extract.py, get_top_level_cursor.  A str is the sequence  *)
(* of its characters.  A JSON value is null, a str, a number (held as its  *)
(* numeral), a list, or a dict: a function from its keys to values.        *)
(***************************************************************************)
NoItems == [k \in {} |-> <<>>]
JNull == [t |-> "null", v |-> <<>>, items |-> NoItems]
JStr(chars) == [t |-> "str", v |-> chars, items |-> NoItems]
JNum(numeral) == [t |-> "num", v |-> numeral, items |-> NoItems]
JEmptyList == [t |-> "list", v |-> <<>>, items |-> NoItems]
JObject(f) == [t |-> "dict", v |-> <<>>, items |-> f]

RECURSIVE Split(_, _)
\* s.split(sep): the pieces of s between the separators, empty ones included
Split(chars, sep) ==
    IF \A i \in 1..Len(chars) : chars[i] # sep THEN <<chars>>
    ELSE LET at == CHOOSE i \in 1..Len(chars) :
                       chars[i] = sep /\ \A j \in 1..(i - 1) : chars[j] # sep
         IN <<SubSeq(chars, 1, at - 1)>> \o Split(SubSeq(chars, at + 1, Len(chars)), sep)

\* the keys of a dict in the order the dict holds them
KeyOrder == <<<<"a">>, <<"b">>>>
KeysOf(node) == SelectSeq(KeyOrder, LAMBDA k : k \in DOMAIN node.items)

RECURSIVE Repr(_)
\* repr(value), which str(value) is for every value but a str
Repr(node) ==
    CASE node.t = "null" -> <<"N", "o", "n", "e">>
      [] node.t = "str" -> <<"'">> \o node.v \o <<"'">>
      [] node.t = "num" -> node.v
      [] node.t = "list" -> <<"[", "]">>
      [] node.t = "dict" ->
             LET keys == KeysOf(node)
                 item(i) == (IF i > 1 THEN <<",", " ">> ELSE <<>>)
                            \o <<"'">> \o keys[i] \o <<"'", ":", " ">> \o Repr(node.items[keys[i]])
                 upto[i \in 0..Len(keys)] == IF i = 0 THEN <<>> ELSE upto[i - 1] \o item(i)
             IN <<"{">> \o upto[Len(keys)] \o <<"}">>
\* str(value)
StrOf(node) == IF node.t = "str" THEN node.v ELSE Repr(node)

\* mutant: a missing key or a null is walked through as if it were the node
DictGet_same(node, part) == node
\* node.get(part)
DictGet(node, part) == IF part \in DOMAIN node.items THEN node.items[part] ELSE JNull

RECURSIVE WalkParts(_, _)
\* the loop of lines 70-77 over the parts that are left
WalkParts(node, parts) ==
    IF parts = <<>> THEN TextValue(StrOf(node))
    ELSE IF Head(parts) = <<>> THEN NoneValue
    ELSE IF node.t # "dict" THEN NoneValue
    ELSE LET next == DictGet(node, Head(parts))
         IN IF next.t = "null" THEN NoneValue ELSE WalkParts(next, Tail(parts))

GetTopLevelCursor(payload, cursor_field) ==
    IF cursor_field = <<>> THEN NoneValue
    ELSE WalkParts(payload, Split(cursor_field, "."))

FieldChars == {"a", "b", "."}
CursorFields == UNION {[1..n -> FieldChars] : n \in 0..MaxFieldLen}
\* the dicts with keys among a and b and values among vals
ObjectsOver(vals) ==
    {JObject(f) : f \in UNION {[K -> vals] : K \in SUBSET {<<"a">>, <<"b">>}}}
CursorLeaves == {JNull, JStr(<<"x">>), JNum(<<"0">>), JEmptyList}
\* the payloads: values nested two deep at most
CursorPayloads(leaves) == leaves \cup ObjectsOver(leaves \cup ObjectsOver(leaves))

InitCursor ==
    /\ fn = "get_top_level_cursor"
    /\ fn_args \in {[payload |-> v, cursor_field |-> f] :
                       v \in CursorPayloads(CursorLeaves), f \in CursorFields}
    /\ fn_ret = <<>>
    /\ heap = <<>>
    /\ ProgramIdle

CursorCall ==
    /\ fn = "get_top_level_cursor"
    /\ fn_ret = <<>>
    /\ fn_ret' = <<GetTopLevelCursor(fn_args.payload, fn_args.cursor_field)>>
    /\ UNCHANGED <<fn, fn_args, heap>>

NextCursor == CursorCall /\ UNCHANGED <<engineVars, handlerVars, events, httpVars>>

SpecCursor == InitCursor /\ [][NextCursor]_vars

(***************************************************************************)
(* Properties of run_pagination.                                           *)
(***************************************************************************)
StoppedReasons ==
    {"end_reached", "empty_page", "max_pages", "cursor_missing", "missing_cursor_getter"}

\* the records of the first k calls, page after page
RECURSIVE ConcatPagesOf(_, _, _)
ConcatPagesOf(id, cs, k) ==
    IF k = 0 THEN <<>>
    ELSE ConcatPagesOf(id, cs, k - 1) \o PageRecords(id, k, cs[k].n)
ConcatPages(cs, k) == ConcatPagesOf(idx, cs, k)

Returned == rpc = "returned"
AllNonEmpty(cs) == \A k \in 1..Len(cs) : ~cs[k].raised /\ cs[k].n > 0
\* call k returned an empty page
EmptyAt(cs, k) == ~cs[k].raised /\ cs[k].n = 0

\* the part of C1 about the order of the calls and the stop at an empty page
PageParamCallsInOrder ==
    pagination.type = "page_param" =>
        LET cs == Calls
        IN /\ \A k \in 1..Len(cs) :
                  cs[k].params[pagination.param] = pagination.start + k - 1
           /\ \A k \in 1..Len(cs) :
                  EmptyAt(cs, k) =>
                      /\ k = Len(cs)
                      /\ Returned
                      /\ run.stopped_reason = "empty_page"
                      /\ run.pages_fetched = k
                      /\ all_records = ConcatPages(cs, k - 1)

\* C1: a PageParam run calls fetch_page for start, start+1, ... in order with
\* params[param] the page number; the first empty page stops it with empty_page,
\* is counted in pages_fetched, and the records are those of the pages before it;
\* with no empty page it stops after page end with end_reached and
\* pages_fetched = end - start + 1.
C1_PageParamRun ==
    /\ PageParamCallsInOrder
    /\ (pagination.type = "page_param" /\ Returned /\ AllNonEmpty(Calls)) =>
           /\ run.stopped_reason = "end_reached"
           /\ run.pages_fetched = pagination.end - pagination.start + 1
           /\ all_records = ConcatPages(Calls, Len(Calls))

\* what holds of C1 for the specs with start <= end
C1_ValidRangeOnly ==
    (pagination.type = "page_param" /\ pagination.start <= pagination.end) =>
        C1_PageParamRun

\* C2: the k-th call (k = 0, 1, ...) of an Offset run carries
\* params[offset_param] = start_offset + k * limit and params[limit_param] = limit;
\* the first empty page stops it with empty_page; max_pages non-empty pages stop
\* it with max_pages after exactly max_pages calls.
C2_OffsetRun ==
    pagination.type = "offset" =>
        LET cs == Calls
        IN /\ Len(cs) <= pagination.max_pages
           /\ \A k \in 1..Len(cs) :
                  /\ cs[k].params[pagination.offset_param]
                         = pagination.start_offset + (k - 1) * pagination.limit
                  /\ cs[k].params[pagination.limit_param] = pagination.limit
           /\ \A k \in 1..Len(cs) :
                  EmptyAt(cs, k) =>
                      k = Len(cs) /\ Returned /\ run.stopped_reason = "empty_page"
           /\ (Returned /\ AllNonEmpty(cs)) =>
                  /\ run.stopped_reason = "max_pages"
                  /\ Len(cs) = pagination.max_pages
                  /\ run.pages_fetched = pagination.max_pages

C2_Witness ==
    /\ pagination.type = "offset"
    /\ pagination.limit >= 2
    /\ Returned
    /\ run.stopped_reason = "max_pages"
    /\ Len(Calls) >= 2

NoGetterCursorRun == pagination.type = "cursor" /\ ~has_getter /\ rpc # "idle"

\* C3 as stated: a Cursor run without a cursor getter always stops after exactly
\* one fetched page with missing_cursor_getter, whatever the page holds.
C3_AlwaysMissingGetter ==
    (NoGetterCursorRun /\ Returned) =>
        /\ run.pages_fetched = 1
        /\ run.stopped_reason = "missing_cursor_getter"

\* C3 amended: a Cursor run without a cursor getter makes at most one call of
\* fetch_page, and when it returns it has fetched exactly one page; the reason is
\* missing_cursor_getter when that page holds a record and empty_page when it
\* holds none.
C3_OnePageWithoutGetter ==
    NoGetterCursorRun =>
        /\ Len(Calls) <= 1
        /\ Returned =>
               /\ Len(Calls) = 1
               /\ run.pages_fetched = 1
               /\ run.stopped_reason =
                      (IF Calls[1].n = 0 THEN "empty_page" ELSE "missing_cursor_getter")

C3_Witness ==
    /\ NoGetterCursorRun
    /\ Returned
    /\ pagination.max_pages >= 2
    /\ pagination.initial_cursor # None
    /\ Calls[1].n > 0
    /\ run.stopped_reason = "missing_cursor_getter"

\* the next cursor is empty: no value, or the empty string
EmptyCursor(c) == c = None \/ c = ""

\* C4: in a Cursor run with a getter, after each non-empty page the next cursor is
\* read and forwarded to the setter if there is one; when it is empty (no value
\* or the empty string) the run stops with cursor_missing and fetches no further
\* page; otherwise the loop goes on, and max_pages non-empty pages with non-empty
\* cursors end with max_pages.
C4_EmptyCursorStops ==
    (pagination.type = "cursor" /\ has_getter) =>
        LET cs == Calls
        IN /\ has_setter =>
                  setter_calls = [k \in 1..Len(setter_calls) |-> cs[k].next]
           /\ \A k \in 1..Len(cs) :
                  (~cs[k].raised /\ cs[k].n > 0 /\ EmptyCursor(cs[k].next)) =>
                      /\ k = Len(cs)
                      /\ Returned
                      /\ run.stopped_reason = "cursor_missing"
           /\ (Returned /\ AllNonEmpty(cs)
                 /\ \A k \in 1..Len(cs) : ~EmptyCursor(cs[k].next)) =>
                  run.stopped_reason = "max_pages" /\ Len(cs) = pagination.max_pages

\* what the code does: only the absent cursor (None) stops the run
C4_NoneCursorStops ==
    (pagination.type = "cursor" /\ has_getter) =>
        LET cs == Calls
        IN /\ has_setter =>
                  setter_calls = [k \in 1..Len(setter_calls) |-> cs[k].next]
           /\ \A k \in 1..Len(cs) :
                  (~cs[k].raised /\ cs[k].n > 0 /\ cs[k].next = None) =>
                      /\ k = Len(cs)
                      /\ Returned
                      /\ run.stopped_reason = "cursor_missing"
           /\ (Returned /\ AllNonEmpty(cs)
                 /\ \A k \in 1..Len(cs) : cs[k].next # None) =>
                  run.stopped_reason = "max_pages" /\ Len(cs) = pagination.max_pages

\* C5: a run that returns has built exactly one PaginationRunResult; its
\* stopped_reason is one of the five reasons, its pages_fetched is the number of
\* fetch_page calls of the run (a final empty page included) and its
\* records_total is the length of the returned record list.
C5_RunResult ==
    /\ results <= 1
    /\ (rpc \in {"idle", "loop", "raised"}) => (results = 0 /\ run = None)
    /\ Returned =>
           /\ results = 1
           /\ run.stopped_reason \in StoppedReasons
           /\ run.pages_fetched = Len(Calls)
           /\ run.records_total = Len(all_records)

C5_Witness ==
    /\ Returned
    /\ run.stopped_reason = "empty_page"
    /\ run.pages_fetched >= 2
    /\ run.records_total >= 2

(***************************************************************************)
(* Properties of the batch loop of the handlers.                           *)
(***************************************************************************)
PagesOf(id) == SelectSeq(events, LAMBDA e : IsPageOf(e, id))
FetchesOf(id) == SelectSeq(events, LAMBDA e : e.kind = "fetch" /\ e.id = id)
RecordsOf(id) == SelectSeq(h_all_records, LAMBDA r : r.id = id)
RaisedIn(id) ==
    \E i \in 1..Len(events) :
        events[i].id = id /\ events[i].kind \in {"page", "fetch"} /\ events[i].raised

\* what the pass of identifier number id yields, from its own responses alone
OwnRecords(id) ==
    CASE RaisedIn(id) -> <<>>
      [] ~RaisedIn(id) /\ pagination.type = "none" ->
             IF FetchesOf(id) = <<>> THEN <<>>
             ELSE IF mode = "document" /\ ~FetchesOf(id)[1].status_ok THEN <<>>
             ELSE PageRecords(id, 0, FetchesOf(id)[1].n)
      [] OTHER -> ConcatPagesOf(id, PagesOf(id), Len(PagesOf(id)))

\* C6: when fetch_page raises on page k of a run, run_pagination does not catch
\* it: no further page of that run is fetched, no PaginationRunResult is built,
\* and none of the records of pages 1..k-1 of that identifier is in the
\* request's combined records.
C6_RaisingPageDiscardsPass ==
    \A i \in 1..Len(events) :
        (events[i].kind = "page" /\ events[i].raised) =>
            /\ \A j \in (i + 1)..Len(events) : ~IsPageOf(events[j], events[i].id)
            /\ (hpc = "pass" /\ idx = events[i].id) =>
                   (rpc = "raised" /\ results = 0 /\ run = None)
            /\ \A k \in 1..Len(pass_log) :
                   pass_log[k].id = events[i].id => pass_log[k].failed
            /\ RecordsOf(events[i].id) = <<>>

C6_Witness ==
    /\ hpc = "done"
    /\ h_all_records # <<>>
    /\ \E i \in 1..Len(events) :
           /\ events[i].kind = "page"
           /\ events[i].raised
           /\ Len(PagesOf(events[i].id)) >= 2

\* C7: batch passes are isolated: a pass that raises contributes no record, every
\* later identifier's pass is still executed, and what a pass that does not
\* raise contributes is what its own responses yield, whatever the other passes
\* did.
C7_PassesIsolated ==
    /\ \A k \in 1..Len(pass_log) :
           /\ pass_log[k].id = k
           /\ pass_log[k].failed => RecordsOf(k) = <<>>
           /\ RecordsOf(k) = OwnRecords(k)
    /\ hpc = "done" => Len(pass_log) = Len(Identifiers)

C7_Witness ==
    /\ hpc = "done"
    /\ Len(pass_log) = 2
    /\ pass_log[1].failed
    /\ Len(PagesOf(1)) >= 2
    /\ ~pass_log[2].failed
    /\ pass_log[2].n > 0

RECURSIVE ConcatPasses(_)
ConcatPasses(k) ==
    IF k = 0 THEN <<>>
    ELSE ConcatPasses(k - 1) \o (IF pass_log[k].failed THEN <<>> ELSE OwnRecords(k))

\* C8: batch identifiers are processed in list order and the pages of a pass in
\* page order: every fetch of identifier i comes before every fetch of
\* identifier i+1, and the combined records are the concatenation, in identifier
\* order, of the records of the passes that succeeded.
C8_StrictOrder ==
    /\ \A i, j \in 1..Len(events) : i < j => events[i].id <= events[j].id
    /\ \A k \in 1..Len(Identifiers) :
           pagination.type = "page_param" =>
               \A c \in 1..Len(PagesOf(k)) :
                   PagesOf(k)[c].params[pagination.param] = pagination.start + c - 1
    /\ h_all_records = ConcatPasses(Len(pass_log))

C8_Witness ==
    /\ hpc = "done"
    /\ Len(pass_log) = 2
    /\ Len(PagesOf(1)) >= 2
    /\ Len(PagesOf(2)) >= 2
    /\ RecordsOf(1) # <<>>
    /\ RecordsOf(2) # <<>>

\* the invariants of the data model on a pagination spec
DataModelInvariant(p) ==
    CASE p.type = "page_param" -> p.start <= p.end
      [] p.type = "offset" -> p.limit >= 1 /\ p.max_pages >= 1
      [] p.type = "cursor" -> p.max_pages >= 1
      [] OTHER -> TRUE

\* C9: every pagination spec that reaches run_pagination from a request satisfies
\* the invariants of the data model (start <= end; limit >= 1 and max_pages >= 1;
\* max_pages >= 1), and a request whose PageParam has end < start is rejected
\* before anything is fetched and never produces a pagination run.
C9_SpecsValidated ==
    /\ rpc # "idle" => DataModelInvariant(pagination)
    /\ (pagination.type = "page_param" /\ pagination.end < pagination.start) =>
           /\ hpc \in {"received", "rejected"}
           /\ events = <<>>
           /\ rpc = "idle"

\* what the schema does enforce: the bounds of the Offset and Cursor variants
C9_OffsetCursorValidated ==
    (rpc # "idle" /\ pagination.type # "page_param") => DataModelInvariant(pagination)

(***************************************************************************)
(* Properties of the fetch layer.                                          *)
(***************************************************************************)
AttemptsMade == Len(SelectSeq(http_log, LAMBDA e : e.kind = "attempt"))
HttpFinished == http_pc \in {"returned", "raised"}

\* C10: get_bytes and post_bytes make at most max_retries + 1 attempts; attempt
\* n+1 is made only after attempt n failed at transport level, with exactly one
\* fixed pause between two consecutive attempts and none after the last; the
\* first attempt that obtains a response ends the loop; when all max_retries + 1
\* attempts fail at transport level the call raises FetchError carrying the last
\* transport exception.
C10_BoundedRetries ==
    /\ AttemptsMade <= max_retries + 1
    /\ \A i \in 1..Len(http_log) :
           LET e == http_log[i]
           IN /\ (e.kind = "attempt" /\ ~e.failed) => (i = Len(http_log) /\ HttpFinished)
              /\ (e.kind = "attempt" /\ i < Len(http_log)) =>
                     (e.failed /\ http_log[i + 1].kind = "sleep")
              /\ e.kind = "sleep" =>
                     /\ e.seconds = RetryPauseS
                     /\ i > 1
                     /\ http_log[i - 1].kind = "attempt"
                     /\ i < Len(http_log) => http_log[i + 1].kind = "attempt"
                     /\ HttpFinished => i < Len(http_log)
    /\ (AttemptsMade = max_retries + 1 /\ http_log[Len(http_log)].failed) =>
           /\ http_pc = "raised"
           /\ http_result = FetchError(http_log[Len(http_log)].error)
    /\ (http_pc = "raised" /\ http_result.cause \in TransportErrors) =>
           AttemptsMade = max_retries + 1

C10_Witness ==
    /\ max_retries >= 2
    /\ http_pc = "raised"
    /\ AttemptsMade = max_retries + 1
    /\ http_log[1].error = "timeout"
    /\ http_result = FetchError("connection")

\* the entries of the call's log that are responses (an attempt that did not
\* fail at transport level)
IsResponse(e) == e.kind = "attempt" /\ ~e.failed

\* C11 as stated: a response with status >= 400 is never retried: it ends the
\* loop and the call returns it as a FetchResult whose status_code is the status
\* received, and raises no error.
C11_ErrorStatusReturned ==
    \A i \in 1..Len(http_log) :
        (IsResponse(http_log[i]) /\ http_log[i].status >= 400) =>
            /\ i = Len(http_log)
            /\ http_pc = "returned"
            /\ http_result = FetchResult(http_log[i].status, http_log[i].size)

\* C11 amended: a response with status >= 400 is never retried, whatever
\* max_retries is: no attempt and no pause follows it; when its body is within
\* the byte cap the call returns it as a FetchResult whose status_code is the
\* status received and raises no error; when its body exceeds the cap the call
\* raises FetchError.
C11_ErrorStatusNotRetried ==
    \A i \in 1..Len(http_log) :
        (IsResponse(http_log[i]) /\ http_log[i].status >= 400) =>
            /\ i = Len(http_log)
            /\ IF http_log[i].size <= HttpMaxBytes
               THEN /\ http_pc = "returned"
                    /\ http_result = FetchResult(http_log[i].status, http_log[i].size)
               ELSE /\ http_pc = "raised"
                    /\ http_result.kind = "FetchError"

C11_Witness ==
    /\ max_retries >= 2
    /\ attempt = 0
    /\ http_pc = "returned"
    /\ http_result.kind = "FetchResult"
    /\ http_result.status_code = 500
    /\ AttemptsMade = 1

\* C12: a response whose body is longer than the byte cap makes the call raise
\* FetchError: no FetchResult is returned and no further attempt is made, even
\* when retries remain; a body of exactly the cap is returned with its length
\* unchanged.
C12_OversizedRejected ==
    \A i \in 1..Len(http_log) :
        IsResponse(http_log[i]) =>
            /\ http_log[i].size > HttpMaxBytes =>
                   /\ i = Len(http_log)
                   /\ http_pc = "raised"
                   /\ http_result = FetchError("too_large")
            /\ http_log[i].size = HttpMaxBytes =>
                   /\ http_pc = "returned"
                   /\ http_result.kind = "FetchResult"
                   /\ http_result.size = HttpMaxBytes

C12_Witness ==
    /\ max_retries >= 1
    /\ attempt < max_retries
    /\ http_pc = "raised"
    /\ http_result = FetchError("too_large")
    /\ http_log[Len(http_log)].size = HttpMaxBytes + 1

(***************************************************************************)
(* Properties of the SSRF guard.                                           *)
(***************************************************************************)
IsRequest(e) == e.kind \in {"attempt", "navigate"}
GuardPassedBefore(i) ==
    \E j \in 1..(i - 1) : http_log[j].kind = "guard" /\ ~http_log[j].failed

\* C13: with private-network blocking enabled, no request attempt of get_bytes,
\* post_bytes or the browser-rendering fetch (first attempt or retry) is issued
\* unless the guard succeeded earlier in the same call; when the guard rejects
\* the URL no attempt is made and the rejection is raised at once, no retry
\* being consumed.
C13_GuardBeforeEveryRequest ==
    block_private_networks =>
        /\ \A i \in 1..Len(http_log) : IsRequest(http_log[i]) => GuardPassedBefore(i)
        /\ \A j \in 1..Len(http_log) :
               (http_log[j].kind = "guard" /\ http_log[j].failed) =>
                   /\ Len(http_log) = 1
                   /\ http_pc = "raised"
                   /\ http_result = FetchError(http_log[j].error)
                   /\ attempt = 0

C13_Witness ==
    /\ block_private_networks
    /\ max_retries >= 1
    /\ http_pc = "raised"
    /\ http_log = <<GuardEntry("blocked")>>

\* the address lies in loopback, private, link-local, multicast or reserved space
InBlockedSpace(ip) ==
    IsLoopback(ip) \/ IsPrivate(ip) \/ IsLinkLocal(ip) \/ IsMulticast(ip) \/ IsReserved(ip)
GuardRan == http_log # <<>> /\ http_log[1].kind = "guard"
GuardSucceeded == GuardRan /\ ~http_log[1].failed

\* C14: resolve_and_block_private_hosts succeeds only if the resolution of the
\* host returns at least one address and every returned address is outside
\* loopback, private, link-local, multicast and reserved space; it fails when
\* any returned address is in one of those ranges, when the resolution fails and
\* when it returns no address; a host whose only answer is 127.0.0.1 is
\* rejected, and so is every URL whose scheme is not http or https.
C14_GuardVerdict ==
    GuardRan =>
        /\ GuardSucceeded =>
               /\ dns.asked
               /\ ~dns.gaierror
               /\ Len(dns.infos) >= 1
               /\ \A i \in 1..Len(dns.infos) : ~InBlockedSpace(dns.infos[i].sockaddr)
        /\ (dns.asked /\ dns.gaierror) => ~GuardSucceeded
        /\ (dns.asked /\ dns.infos = <<>>) => ~GuardSucceeded
        /\ (dns.asked /\ \E i \in 1..Len(dns.infos) :
                              InBlockedSpace(dns.infos[i].sockaddr)) => ~GuardSucceeded
        /\ (dns.asked /\ ~dns.gaierror /\ dns.infos = <<AddrInfo(Loopback4)>>) =>
               ~GuardSucceeded
        /\ h_url.scheme \notin {"http", "https"} => ~GuardSucceeded

C14_Witness ==
    /\ GuardRan
    /\ ~GuardSucceeded
    /\ dns.asked
    /\ Len(dns.infos) = 2
    /\ ~InBlockedSpace(dns.infos[1].sockaddr)
    /\ InBlockedSpace(dns.infos[2].sockaddr)

(***************************************************************************)
(* Properties of identifier injection.                                     *)
(***************************************************************************)
\* the positions of str where old starts
Occurrences(str, old) ==
    {i \in 1..(Len(str) - Len(old) + 1) : SubSeq(str, i, i + Len(old) - 1) = old}
\* what position i of str contributes when every occurrence of old becomes new
PieceAt(str, old, new, i) ==
    IF i \in Occurrences(str, old) THEN new
    ELSE IF \E j \in Occurrences(str, old) : j < i /\ i <= j + Len(old) - 1 THEN <<>>
    ELSE <<str[i]>>
RECURSIVE ConcatPieces(_, _, _, _)
ConcatPieces(str, old, new, n) ==
    IF n = 0 THEN <<>>
    ELSE ConcatPieces(str, old, new, n - 1) \o PieceAt(str, old, new, n)
EveryTokenReplaced(url, var_name, identifier) ==
    ConcatPieces(url, Token(var_name), <<identifier>>, Len(url))

\* d with the value at key k replaced when the key exists
WithKeyReplaced(d, k, v) == [x \in DOMAIN d |-> IF x = k THEN v ELSE d[x]]
ExpectedBody(b0, var_name, identifier) ==
    LET top == WithKeyReplaced(b0.top, var_name, Str(identifier))
    IN [none |-> b0.none,
        top |-> top,
        variables |-> IF "variables" \in DOMAIN top /\ IsDictValue(top["variables"])
                      THEN WithKeyReplaced(b0.variables, var_name, Str(identifier))
                      ELSE EmptyDict]

Injected(e) == e.identifier # None

\* C15: _inject_identifier returns the URL with every '{var}' token replaced by
\* the identifier, params equal to the input except that the value at key var is
\* the identifier iff that key existed, and body equal to the input except that
\* body[var] and body['variables'][var] are the identifier where those keys
\* existed; no key is added and every other key and value is as in the input.
C15_InjectResult ==
    fn = "inject" =>
        \A i \in 1..Len(fn_ret) :
            LET e == fn_ret[i]
                v == fn_args.batch_variable_name
            IN Injected(e) =>
                   /\ e.url = EveryTokenReplaced(fn_args.api_url, v, e.identifier)
                   /\ heap[e.params] = WithKeyReplaced(fn_args.params0, v, Str(e.identifier))
                   /\ BodyValue(heap, e.body) = ExpectedBody(fn_args.body0, v, e.identifier)

C15_Witness ==
    /\ fn = "inject"
    /\ fn_args.api_url = Token("id") \o Token("id")
    /\ fn_args.batch_variable_name = "id"
    /\ Len(fn_ret) = 1
    /\ fn_ret[1].url = <<"a", "a">>
    /\ heap[fn_ret[1].params]["id"] = Str("a")
    /\ heap[fn_ret[1].params]["q"] = Str("x")
    /\ BodyValue(heap, fn_ret[1].body).variables["id"] = Str("a")

\* the dict at address a and the dicts its values are
Reach(h, a) ==
    IF a = 0 THEN {}
    ELSE {a} \cup {h[a][k].ref : k \in {x \in DOMAIN h[a] : IsDictValue(h[a][x])}}
ObjectsOf(e) == Reach(heap, e.params) \cup Reach(heap, e.body)
\* the identifier occurs in what was handed to a pass
Mentions(e, identifier) ==
    \/ \E j \in 1..Len(e.url) : e.url[j] = identifier
    \/ \E k \in DOMAIN heap[e.params] : heap[e.params][k] = Str(identifier)
    \/ \E k \in DOMAIN BodyValue(heap, e.body).top :
           BodyValue(heap, e.body).top[k] = Str(identifier)
    \/ \E k \in DOMAIN BodyValue(heap, e.body).variables :
           BodyValue(heap, e.body).variables[k] = Str(identifier)

\* C16: identifier injection never mutates its inputs: after any number of batch
\* passes the request's params and body (the nested 'variables' object
\* included) have the values they arrived with; what is handed to the pass of an
\* identifier shares no dict with the request or with what another pass was
\* handed, and shows no other identifier's substitution.
C16_InputsNotMutated ==
    fn = "inject" =>
        /\ heap[fn_args.params] = fn_args.params0
        /\ BodyValue(heap, fn_args.body) = fn_args.body0
        /\ \A i \in 1..Len(fn_ret) :
               Injected(fn_ret[i]) =>
                   /\ ObjectsOf(fn_ret[i]) \cap ObjectsOf(fn_args) = {}
                   /\ \A j \in 1..Len(fn_ret) :
                          j # i =>
                              /\ ObjectsOf(fn_ret[i]) \cap ObjectsOf(fn_ret[j]) = {}
                              /\ ~Mentions(fn_ret[i], fn_ret[j].identifier)

C16_Witness ==
    /\ fn = "inject"
    /\ Len(fn_ret) = 2
    /\ fn_args.batch_variable_name = "id"
    /\ "id" \in DOMAIN fn_args.params0
    /\ "id" \in DOMAIN fn_args.body0.variables
    /\ BodyValue(heap, fn_ret[1].body).variables["id"] = Str("a")
    /\ BodyValue(heap, fn_ret[2].body).variables["id"] = Str("b")

(***************************************************************************)
(* Properties of extract_records_from_json.                                *)
(***************************************************************************)
JsonReturned == fn = "extract_records_from_json" /\ fn_ret # <<>>
JsonResult == fn_ret[1]

\* C17: for every JSON input that is a non-empty array whose every element is an
\* object, extract_records_from_json returns exactly that array (same elements,
\* same order) with path '$', whatever the elements hold.
C17_ArrayOfObjectsReturned ==
    LET payload == fn_args.payload
    IN (/\ JsonReturned
        /\ payload.t = "list"
        /\ payload.items # <<>>
        /\ \A i \in 1..Len(payload.items) : payload.items[i].v.t = "dict") =>
           /\ JsonResult.found
           /\ JsonResult.records = Values(payload)
           /\ JsonResult.path = <<"$">>

\* the root is an array of two objects, the first holding a longer array of
\* objects
C17_Witness ==
    /\ JsonReturned
    /\ fn_args.payload.t = "list"
    /\ Len(fn_args.payload.items) = 2
    /\ JsonResult.path = <<"$">>
    /\ Len(JsonResult.records) = 2
    /\ JsonResult.records[1].t = "dict"
    /\ JsonResult.records[1].items # <<>>
    /\ JsonResult.records[1].items[1].v.t = "list"
    /\ Len(JsonResult.records[1].items[1].v.items) = 2

\* every value of the payload with its path, breadth first (dict key order, then
\* array index order), the members of the arrays of objects included
RECURSIVE Flatten(_)
\* the sequences of ss one after the other
Flatten(ss) ==
    IF Len(ss) = 0 THEN <<>>
    ELSE IF Len(ss) = 1 THEN ss[1]
    ELSE Flatten(SubSeq(ss, 1, Len(ss) \div 2))
         \o Flatten(SubSeq(ss, Len(ss) \div 2 + 1, Len(ss)))
RECURSIVE BreadthFirst(_)
\* level by level: the values of the queue, then their children in that order
BreadthFirst(queue) ==
    IF queue = <<>> THEN <<>>
    ELSE queue \o BreadthFirst(Flatten([i \in 1..Len(queue) |->
                                           Children(queue[i].node, queue[i].path)]))
AllValues(payload) == BreadthFirst(<<[node |-> payload, path |-> <<"$">>]>>)

\* a non-empty array whose every element is an object
IsArrayOfObjects(node) ==
    /\ node.t = "list"
    /\ node.items # <<>>
    /\ \A i \in 1..Len(node.items) : node.items[i].v.t = "dict"

ArraysOfObjects(payload) ==
    SelectSeq(AllValues(payload), LAMBDA e : IsArrayOfObjects(e.node))

IsPrefix(p, q) == Len(p) < Len(q) /\ SubSeq(q, 1, Len(p)) = p
\* the arrays of objects that lie inside no other array of objects
OutermostArrays(payload) ==
    LET all == ArraysOfObjects(payload)
    IN SelectSeq(all, LAMBDA e : \A i \in 1..Len(all) : ~IsPrefix(all[i].path, e.path))

\* the result is a longest one of cands, and the first of that length
IsFirstLongest(result, cands) ==
    cands # <<>> =>
        /\ result.found
        /\ \A i \in 1..Len(cands) : Len(result.records) >= Len(cands[i].node.items)
        /\ \E i \in 1..Len(cands) :
               /\ result.path = cands[i].path
               /\ result.records = Values(cands[i].node)
               /\ \A j \in 1..(i - 1) :
                      Len(cands[j].node.items) < Len(cands[i].node.items)

\* the input is searched: it is a dict or a list, and no array of objects itself
IsSearched(payload) == payload.t \in {"dict", "list"} /\ ~IsArrayOfObjects(payload)

\* C18: for every JSON input searched breadth-first, the record list returned is
\* at least as long as every non-empty array of objects reachable at any depth
\* (the arrays nested inside the elements of another array of objects included),
\* and among the candidates of that length it is the one met first in
\* breadth-first order.
C18_LongestArrayAnywhere ==
    (JsonReturned /\ IsSearched(fn_args.payload)) =>
        IsFirstLongest(JsonResult, ArraysOfObjects(fn_args.payload))

\* what the search does find: the first longest of the arrays of objects that
\* lie inside no other array of objects
C18_LongestOutermostArray ==
    (JsonReturned /\ IsSearched(fn_args.payload)
                  /\ TreeSize(fn_args.payload) <= MaxVisited) =>
        IsFirstLongest(JsonResult, OutermostArrays(fn_args.payload))

\* the queue operations of the call, in order
Pops == SelectSeq(events, LAMBDA e : e.kind = "popleft")
Appends == SelectSeq(events, LAMBDA e : e.kind = "append")
\* the value of the payload that lies at a path
ValueAt(payload, path) ==
    LET all == AllValues(payload)
    IN all[CHOOSE i \in 1..Len(all) : all[i].path = path].node
\* the child of the value at path under a key or an index was put on the queue
Appended(path, piece) == \E j \in 1..Len(Appends) : Appends[j].path = Append(path, piece)

\* every value taken from the queue is expanded over all its keys if it is an
\* object, and over its first 50 elements and no other if it is an array
ExpandedWithinSlice(payload) ==
    \A i \in 1..Len(Pops) :
        LET path == Pops[i].path
            node == ValueAt(payload, path)
        IN CASE node.t = "dict" ->
                    \A k \in 1..Len(node.items) : Appended(path, PathKeys[k])
             [] node.t = "list" /\ ~IsListOfRecords(node) ->
                    \A k \in 1..Len(node.items) :
                        Appended(path, PathIndexes[k]) <=> k <= ListSlice
             [] OTHER -> \A j \in 1..Len(Appends) : ~IsPrefix(path, Appends[j].path)

\* C29: the JSON breadth-first search is bounded on every input: it takes at
\* most 500 nodes from the queue, it puts on the queue the first 50 elements of
\* an array at most (and the values of all keys of an object), the record list
\* it returns is one of the first 500 nodes taken from the queue, and the loop
\* ends.
C29_SearchBounded ==
    (JsonReturned /\ Searches(fn_args.payload)) =>
        /\ Len(Pops) <= MaxVisited
        /\ ExpandedWithinSlice(fn_args.payload)
        /\ JsonResult.found =>
               \E i \in 1..Len(Pops) : i <= MaxVisited /\ Pops[i].path = JsonResult.path
        /\ LoopEnds(Search(fn_args.payload))

\* no list of records was taken from the queue
NoneFound(payload) ==
    \A i \in 1..Len(Pops) : ~IsListOfRecords(ValueAt(payload, Pops[i].path))

\* C30: when the search finds no array of objects, extract_records_from_json
\* returns the whole root as a single record with path '$' if and only if the
\* root is a non-empty object; for an empty object, an empty array, an array
\* with no objects at any searched depth, or a scalar root it returns nothing.
C30_RootFallback ==
    LET payload == fn_args.payload
    IN (JsonReturned /\ ~IsArrayOfObjects(payload) /\ NoneFound(payload)) =>
           /\ JsonResult.found <=> (payload.t = "dict" /\ payload.items # <<>>)
           /\ JsonResult.found =>
                  JsonResult.records = <<payload>> /\ JsonResult.path = <<"$">>

\* an object that holds an empty array and a scalar is returned as one record
C30_Witness ==
    /\ JsonReturned
    /\ fn_args.payload = JsonDict(<<JsonList(<<>>), Scalar>>)
    /\ NoneFound(fn_args.payload)
    /\ JsonResult = JsonRecordsResult(<<fn_args.payload>>, <<"$">>)

\* nothing is returned for the empty object, the empty array, an array of an
\* empty array and a scalar, and a scalar
C30_WitnessEmptyObject == JsonReturned /\ fn_args.payload = JsonDict(<<>>) /\ ~JsonResult.found
C30_WitnessEmptyArray == JsonReturned /\ fn_args.payload = JsonList(<<>>) /\ ~JsonResult.found
C30_WitnessNoObjects ==
    /\ JsonReturned
    /\ fn_args.payload = JsonList(<<JsonList(<<>>), Scalar>>)
    /\ Len(Pops) = 3
    /\ ~JsonResult.found
C30_WitnessScalar == JsonReturned /\ fn_args.payload = Scalar /\ ~JsonResult.found

\* the cap on the visited nodes ends the loop: 500 nodes were taken, the list
\* of records is the next one of the queue, and nothing is returned
C29_Witness ==
    /\ JsonReturned
    /\ Searches(fn_args.payload)
    /\ Len(Pops) = MaxVisited
    /\ Search(fn_args.payload).queue # <<>>
    /\ IsListOfRecords(Head(Search(fn_args.payload).queue).node)
    /\ ~JsonResult.found

\* an array of 51 elements: the last one, which holds the only list of records,
\* is never put on the queue
C29_WitnessSlice ==
    /\ JsonReturned
    /\ fn_args.payload.t = "list"
    /\ Len(fn_args.payload.items) = ListSlice + 1
    /\ Len(Appends) = ListSlice
    /\ ArraysOfObjects(fn_args.payload) = <<>>
    /\ ~JsonResult.found

\* the list of records is the 500th node taken from the queue, and is returned
C29_WitnessLastVisited ==
    /\ JsonReturned
    /\ Len(Pops) = MaxVisited
    /\ JsonResult.found
    /\ Pops[MaxVisited].path = JsonResult.path

(***************************************************************************)
(* Properties of field_filter.py.                                          *)
(***************************************************************************)
CompanyName == <<"c", "o", "m", "p", "a", "n", "y", "n", "a", "m", "e">>

\* C19: normalize_field_name is idempotent, its result holds only characters of
\* [a-z0-9], and it is insensitive to case and separators: 'Company Name',
\* 'company_name' and 'companyName' normalize to the same string.
C19_NormalizeIdempotent ==
    fn = "normalize_field_name" =>
        /\ \A k \in 1..Len(fn_ret) :
               \A i \in 1..Len(fn_ret[k]) :
                   fn_ret[k][i] \in {"a", "c", "e", "m", "n", "o", "p", "y", "7"}
        /\ Len(fn_ret) = 2 => fn_ret[2] = fn_ret[1]
        /\ (fn_ret # <<>> /\ fn_args.name \in ExampleNames) => fn_ret[1] = CompanyName

C19_Witness ==
    /\ fn = "normalize_field_name"
    /\ fn_args.name = <<"C", "o", "m", "p", "a", "n", "y", " ", "N", "a", "m", "e">>
    /\ Len(fn_ret) = 2
    /\ fn_ret[2] = CompanyName

FilterReturned == fn = "filter_records_by_fields" /\ fn_ret # <<>>

\* C20: filter_records_by_fields(records, []) returns the same records in the
\* same order with every field kept, matched_fields = {} and
\* unmatched_requested = [], and all_available_fields is the sorted union of
\* the keys of the records.
C20_EmptyRequestNoOp ==
    (FilterReturned /\ fn_args.requested_fields = <<>>) =>
        LET ret == fn_ret[1]
            available == ret.result.all_available_fields
        IN /\ ret.records = fn_args.records
           /\ DOMAIN ret.result.matched_fields = {}
           /\ ret.result.unmatched_requested = <<>>
           /\ {available[i] : i \in 1..Len(available)}
                  = UNION {DOMAIN fn_args.records[i] : i \in 1..Len(fn_args.records)}
           /\ \A i, j \in 1..Len(available) :
                  i < j => (available[i] # available[j] /\ StrLeq(available[i], available[j]))

C20_Witness ==
    /\ FilterReturned
    /\ fn_args.requested_fields = <<>>
    /\ Len(fn_args.records) = 2
    /\ DOMAIN fn_args.records[1] = {<<"n">>}
    /\ DOMAIN fn_args.records[2] = {<<"N">>, <<"_", "7">>}
    /\ fn_ret[1].result.all_available_fields = <<<<"N">>, <<"_", "7">>, <<"n">>>>

\* C21: with a non-empty request list, filter_records_by_fields returns no
\* records when matched_fields is empty, and the match diagnostics are still
\* returned (all_available_fields holds the keys of the records, and every
\* request that normalizes to a non-empty string is in unmatched_requested);
\* otherwise it returns, in input order, each record restricted to the values
\* of matched_fields, without the records left empty.
C21_FilterKeepsMatched ==
    (FilterReturned /\ fn_args.requested_fields # <<>>) =>
        LET records == fn_args.records
            requested == fn_args.requested_fields
            ret == fn_ret[1]
            matched == ret.result.matched_fields
            available == ret.result.all_available_fields
            unmatched == ret.result.unmatched_requested
            kept == {matched[r] : r \in DOMAIN matched}
            cut == [i \in 1..Len(records) |->
                       [k \in {f \in DOMAIN records[i] : f \in kept} |-> records[i][k]]]
        IN /\ DOMAIN matched \subseteq {requested[i] : i \in 1..Len(requested)}
           /\ kept \subseteq UNION {DOMAIN records[i] : i \in 1..Len(records)}
           /\ IF DOMAIN matched = {}
              THEN /\ ret.records = <<>>
                   /\ {available[i] : i \in 1..Len(available)}
                          = UNION {DOMAIN records[i] : i \in 1..Len(records)}
                   /\ \A i \in 1..Len(requested) :
                          NormalizeFieldName(requested[i]) # <<>> =>
                              \E j \in 1..Len(unmatched) : unmatched[j] = requested[i]
              ELSE /\ ret.records = SelectSeq(cut, LAMBDA r : DOMAIN r # {})
                   /\ \A i \in 1..Len(ret.records) :
                          /\ DOMAIN ret.records[i] # {}
                          /\ DOMAIN ret.records[i] \subseteq kept

\* filter_records_by_fields([{"a": "1", "b": "2"}], ["A"]) has returned
\* [{"a": "1"}] with matched_fields {"A": "a"}
C21_Witness ==
    /\ FilterReturned
    /\ fn_args.records = ExampleRecords
    /\ fn_args.requested_fields = ExampleRequest
    /\ fn_ret[1].records = <<(<<"a">> :> "1")>>
    /\ fn_ret[1].result.matched_fields = (<<"A">> :> <<"a">>)

\* some record has been dropped and some has been cut
C21_WitnessDropped ==
    /\ FilterReturned
    /\ fn_args.requested_fields # <<>>
    /\ Len(fn_args.records) = 2
    /\ Len(fn_ret[1].records) = 1
    /\ \E i \in 1..2 : DOMAIN fn_ret[1].records[1] # DOMAIN fn_args.records[i]
    /\ DOMAIN fn_ret[1].result.matched_fields # {}

(***************************************************************************)
(* Properties of html_extract.py.                                          *)
(***************************************************************************)
HtmlReturned == fn = "extract_records_from_html" /\ fn_ret # <<>>

\* the selector argument holds something besides blanks
SelectorSupplied ==
    /\ ~fn_args.css_selector.none
    /\ \E i \in 1..Len(fn_args.css_selector.s) : fn_args.css_selector.s[i] # " "

\* the selector argument without the blanks around it
Trimmed ==
    LET sel == fn_args.css_selector.s
        inked == {i \in 1..Len(sel) : sel[i] # " "}
    IN SubSeq(sel, CHOOSE i \in inked : \A j \in inked : i <= j,
                   CHOOSE i \in inked : \A j \in inked : j <= i)

\* the document holds a table that gives at least one record
HasTables == ExtractRecordsFromTables(fn_args.html).records # <<>>

\* some tag of the document is named or classed as the selector says
SelectorMatchesSome ==
    \E e \in {Preorder(fn_args.html)[i] : i \in 1..Len(Preorder(fn_args.html))} :
        \/ Trimmed = <<e.name>>
        \/ \E c \in {e.classes[i] : i \in 1..Len(e.classes)} : Trimmed = <<".">> \o c

C22_WitnessTables ==
    /\ HtmlReturned
    /\ fn_args.css_selector = TextValue(<<" ">>)
    /\ Len(fn_ret[1].records) = 1
    /\ ~fn_ret[1].raised

\* a selector the selector engine rejects: the call raises
C22_WitnessSyntaxError ==
    /\ HtmlReturned
    /\ SelectorSupplied
    /\ fn_ret[1].raised

(***************************************************************************)
(* Properties of the decision trace.                                       *)
(***************************************************************************)
\* the list later is the list earlier with entries appended
Extends(later, earlier) ==
    /\ Len(earlier) <= Len(later)
    /\ \A i \in 1..Len(earlier) : later[i] = earlier[i]

RECURSIVE ConcatOwnRecords(_)
\* what the passes 1..k yield, from the responses they received alone
ConcatOwnRecords(k) ==
    IF k = 0 THEN <<>> ELSE ConcatOwnRecords(k - 1) \o OwnRecords(k)

\* C23: the decision trace of a request only grows: every step of a handler
\* leaves the entries already there in place and unchanged, a failing pass
\* included; and the records returned are those the responses of the passes
\* yield, whatever the trace holds.
C23_TraceAppendOnly ==
    /\ [][Extends(trace', trace)]_vars
    /\ [](hpc = "done" => h_all_records = ConcatOwnRecords(Len(Identifiers)))

\* a pass appended entries for its first page, failed on its second, and the
\* entries are in the trace of the response, before the failed entry
C23_Witness ==
    /\ hpc = "done"
    /\ \E i, j \in 1..Len(trace), k \in 1..Len(pass_log) :
           /\ i < j
           /\ trace[i].step = "xhr_extract"
           /\ trace[j].step = "batch_error"
           /\ pass_log[k].failed
           /\ Len(PagesOf(k)) = 2
    /\ trace[Len(trace)].step = "write_csv"

(***************************************************************************)
(* Properties of pagination_config.py.                                     *)
(***************************************************************************)
ParseReturned == fn = "parse_pagination" /\ fn_ret # <<>>

\* the numeric fields of the configuration, by pagination type
NumericFields(type) ==
    CASE type = "page_param" -> {"start", "end"}
      [] type = "offset" -> {"limit", "max_pages", "start_offset"}
      [] type = "cursor" -> {"max_pages"}
      [] OTHER -> {}

\* the configuration supplies an int that breaks an invariant of its type
BreaksInvariant(cfg) ==
    /\ cfg.is_dict
    /\ CASE cfg.type = "page_param" ->
                \/ cfg.start.kind = "int" /\ cfg.start.n < 1
                \/ cfg.start.kind = "int" /\ cfg.end.kind = "int" /\ cfg.end.n < cfg.start.n
         [] cfg.type = "offset" ->
                \/ cfg.limit.kind = "int" /\ cfg.limit.n < 1
                \/ cfg.max_pages.kind = "int" /\ cfg.max_pages.n < 1
                \/ cfg.start_offset.kind = "int" /\ cfg.start_offset.n < 0
         [] cfg.type = "cursor" -> cfg.max_pages.kind = "int" /\ cfg.max_pages.n < 1
         [] OTHER -> FALSE

\* every numeric field of the returned spec for which the configuration
\* supplies an int that is in Kept holds that int
FieldsAsSupplied(Kept) ==
    LET cfg == fn_args.pagination
        ret == fn_ret[1]
    IN \A f \in NumericFields(ret.spec.type) :
           (cfg[f].kind = "int" /\ cfg[f].n \in Kept) => ret.spec[f] = cfg[f].n

\* C24: parse_pagination never replaces a malformed value by a default: a
\* configuration that supplies a value breaking an invariant (start below 1,
\* max_pages below 1, ...) raises ParseError, and every numeric field of a
\* returned spec equals the value the configuration supplies for it.
C24_NeverDefaulted ==
    ParseReturned =>
        LET cfg == fn_args.pagination
            ret == fn_ret[1]
        IN /\ BreaksInvariant(cfg) => (ret.raised /\ ret.error = "ParseError")
           /\ ~ret.raised => FieldsAsSupplied(Int)

\* What holds instead: a supplied value other than 0 is never replaced, and a
\* configuration whose supplied numeric values are ints other than 0 raises
\* ParseError when one of them breaks an invariant.
C24_NonZeroNeverDefaulted ==
    ParseReturned =>
        LET cfg == fn_args.pagination
            ret == fn_ret[1]
            nonzero == cfg.is_dict /\
                       \A f \in NumericFields(cfg.type) :
                           cfg[f].kind = "none" \/ (cfg[f].kind = "int" /\ cfg[f].n # 0)
        IN /\ (BreaksInvariant(cfg) /\ nonzero) => (ret.raised /\ ret.error = "ParseError")
           /\ ~ret.raised => FieldsAsSupplied(Int \ {0})

\* parse_pagination({"type": "page_param", "param": "page", "start": 0, "end": 2})
\* has returned a spec with start = 1
C24_ZeroStartDefaulted ==
    /\ ParseReturned
    /\ fn_args.pagination.is_dict
    /\ fn_args.pagination.type = "page_param"
    /\ fn_args.pagination.start = IntV(0)
    /\ fn_args.pagination.end = IntV(2)
    /\ ~fn_ret[1].raised
    /\ fn_ret[1].spec.start = 1

(***************************************************************************)
(* Properties of the pacing pauses.                                        *)
(***************************************************************************)
\* between any two page fetches of one pass there is a pause of that pass
PausedBetweenPages ==
    \A i, j \in 1..Len(events) :
        (i < j /\ events[i].kind = "page" /\ events[j].kind = "page"
               /\ events[i].id = events[j].id) =>
            \E k \in (i + 1)..(j - 1) : events[k].kind = "sleep" /\ events[k].id = events[i].id

\* C25: with delay_ms > 0 and pagination configured, a pause of delay_ms
\* lies between every two consecutive page fetches of a pass, in document
\* mode, XHR mode and selenium mode.
C25_PauseBetweenPages ==
    (mode \in {"document", "xhr", "selenium"} /\ delay_ms > 0) => PausedBetweenPages

\* What holds instead: the pages of an XHR pass are paced.
C25_XhrPauseBetweenPages ==
    (mode = "xhr" /\ delay_ms > 0) => PausedBetweenPages

\* a document-mode pass with delay_ms > 0 has fetched two pages with no pause
C25_DocumentPagesUnpaced ==
    /\ mode = "document"
    /\ delay_ms > 0
    /\ hpc = "done"
    /\ Len(PagesOf(1)) >= 2
    /\ \A i \in 1..Len(events) : events[i].kind # "sleep"

\* an XHR pass has fetched two pages with pauses
C25_XhrPagesPaced ==
    /\ mode = "xhr"
    /\ delay_ms > 0
    /\ hpc = "done"
    /\ Len(PagesOf(1)) >= 2

(***************************************************************************)
(* Properties of the cursor threaded through a Cursor run.                 *)
(***************************************************************************)
\* the cursor the k-th iteration of the run works with: initial_cursor, then
\* what the getter returned after the page before
CursorUsed(cs, k) == IF k = 1 THEN pagination.initial_cursor ELSE cs[k - 1].next

\* C26: in a Cursor run, the params handed to the k-th fetch_page call hold
\* cursor_param = the cursor of iteration k when there is one, and do not hold
\* cursor_param when there is none (even when base_params holds the key); the
\* other keys are those of base_params; the cursor of iteration 1 is
\* initial_cursor and that of iteration k+1 is the one the getter returned
\* after iteration k.
C26_CursorParams ==
    (mode = "engine" /\ pagination.type = "cursor") =>
        LET cs == Calls
            key == pagination.cursor_param
        IN \A k \in 1..Len(cs) :
               LET used == CursorUsed(cs, k)
                   sent == cs[k].params
               IN /\ used # None => (key \in DOMAIN sent /\ sent[key] = used)
                  /\ used = None => key \notin DOMAIN sent
                  /\ DOMAIN sent \ {key} = DOMAIN base_params \ {key}
                  /\ \A x \in DOMAIN sent \ {key} : sent[x] = base_params[x]
                  /\ k > 1 => has_getter

\* base_params held the cursor key, the first page was fetched without it and
\* the second with the cursor the getter returned
C26_Witness ==
    /\ mode = "engine"
    /\ pagination.type = "cursor"
    /\ pagination.initial_cursor = None
    /\ "cursor" \in DOMAIN base_params
    /\ Len(Calls) = 2
    /\ "cursor" \notin DOMAIN Calls[1].params
    /\ Calls[1].next = "c1"
    /\ Calls[2].params["cursor"] = "c1"

\* C27: in XHR mode the cursor cell belongs to one pass: the pass of each
\* identifier starts with an empty cell and with initial_cursor, every page
\* overwrites the cell with the cursor of its response (none when the field is
\* absent), page k+1 of a pass is sent the cursor of the response of page k of
\* that pass, and no pass is sent a cursor found in another pass.
C27_CursorCellPerPass ==
    (mode = "xhr" /\ pagination.type = "cursor") =>
        LET key == pagination.cursor_param
            answered == SelectSeq(Calls, LAMBDA e : ~e.raised)
        IN /\ \A id \in 1..Len(Identifiers) :
                  LET cs == PagesOf(id)
                  IN \A k \in 1..Len(cs) :
                         LET used == CursorUsed(cs, k)
                             sent == cs[k].params
                         IN /\ used # None => (key \in DOMAIN sent /\ sent[key] = used)
                            /\ used = None => key \notin DOMAIN sent
           /\ hpc = "pass" =>
                  cursor_holder = IF answered = <<>> THEN None
                                  ELSE answered[Len(answered)].next
           /\ hpc # "pass" => cursor_holder = None

\* the first pass found the cursor c1 and sent it with its second page; the
\* second pass started without it
C27_Witness ==
    /\ mode = "xhr"
    /\ pagination.type = "cursor"
    /\ pagination.initial_cursor = None
    /\ Len(Identifiers) = 2
    /\ Len(PagesOf(1)) = 2
    /\ PagesOf(1)[1].next = "c1"
    /\ PagesOf(1)[2].params["cursor"] = "c1"
    /\ PagesOf(1)[2].next = "c1"
    /\ Len(PagesOf(2)) >= 1
    /\ "cursor" \notin DOMAIN PagesOf(2)[1].params

(***************************************************************************)
(* Properties of the trace entries of failing passes.                      *)
(***************************************************************************)
\* the entries written by an `except` block: failed, with the error text
ExceptionEntries ==
    SelectSeq(trace, LAMBDA e : /\ ~e.ok
                                /\ e.error
                                /\ e.step \in {"batch_error", "selenium_extract",
                                               "pagination"})

\* the passes that ended by an exception, in the order they ran: a fetch of
\* the pass raised, or (selenium) the call of run_pagination did
FailedPasses ==
    SelectSeq([k \in 1..Len(pass_log) |-> k],
              LAMBDA k : \/ RaisedIn(k)
                         \/ mode = "selenium" /\ pagination.type = "page_param")

\* every pass that failed by an exception has exactly one entry of its own,
\* and the entry carries the identifier of the pass
OneEntryPerFailedPass ==
    /\ Len(ExceptionEntries) = Len(FailedPasses)
    /\ \A i \in 1..Len(FailedPasses) :
           i <= Len(ExceptionEntries) =>
               /\ ExceptionEntries[i].identifier = Identifiers[FailedPasses[i]]
               /\ ExceptionEntries[i].error

\* C28: in each of the three handlers, every pass that fails with an
\* exception adds exactly one failed trace entry, which carries the
\* identifier of the pass and the error text.
C28_FailedPassEntry ==
    (mode \in {"document", "xhr", "selenium"} /\ hpc \in {"batch", "done"}) =>
        OneEntryPerFailedPass

\* What holds instead: the property in document mode and XHR mode.
C28_DocXhrFailedPassEntry ==
    (mode \in {"document", "xhr"} /\ hpc \in {"batch", "done"}) => OneEntryPerFailedPass

\* the second page of the pass of the second identifier raised, and the trace
\* holds one batch_error entry with that identifier
C28_XhrFailedPass ==
    /\ mode = "xhr"
    /\ hpc = "done"
    /\ Len(Identifiers) = 2
    /\ FailedPasses = <<2>>
    /\ Len(PagesOf(2)) = 2
    /\ Len(ExceptionEntries) = 1
    /\ ExceptionEntries[1].identifier = Identifiers[2]

\* the renderer raised in the pass of an identifier, and the entry written for
\* it carries no identifier
C28_SeleniumEntryWithoutIdentifier ==
    /\ mode = "selenium"
    /\ hpc = "done"
    /\ pagination.type = "none"
    /\ Len(Identifiers) = 1
    /\ Identifiers[1] # None
    /\ RaisedIn(1)
    /\ Len(ExceptionEntries) = 1
    /\ ExceptionEntries[1].identifier = None

(***************************************************************************)
(* Properties of get_top_level_cursor.                                     *)
(***************************************************************************)
CursorReturned == fn = "get_top_level_cursor" /\ fn_ret # <<>>
\* the keys of the path
PathKeysOf(cursor_field) == Split(cursor_field, ".")
\* the value reached after the first k keys of the path, null where there is
\* none
ValueAfter(payload, keys, k) ==
    LET reached[i \in 0..k] ==
            IF i = 0 THEN payload
            ELSE IF reached[i - 1].t = "dict" /\ keys[i] \in DOMAIN reached[i - 1].items
                 THEN reached[i - 1].items[keys[i]]
                 ELSE JNull
    IN reached[k]

\* C31: get_top_level_cursor(json, path) walks the dot-separated keys of path
\* through nested objects and returns the string form of the value at the end;
\* it returns no value if a key is missing, if an intermediate value is no
\* object, if a key or the whole path is empty, or if a value on the path is
\* null.
C31_CursorAtPath ==
    CursorReturned =>
        LET payload == fn_args.payload
            keys == PathKeysOf(fn_args.cursor_field)
            walkable ==
                /\ fn_args.cursor_field # <<>>
                /\ \A k \in 1..Len(keys) :
                       /\ keys[k] # <<>>
                       /\ ValueAfter(payload, keys, k - 1).t = "dict"
                       /\ keys[k] \in DOMAIN ValueAfter(payload, keys, k - 1).items
                       /\ ValueAfter(payload, keys, k).t # "null"
        IN IF walkable
           THEN fn_ret[1] = TextValue(StrOf(ValueAfter(payload, keys, Len(keys))))
           ELSE fn_ret[1] = NoneValue

\* the path a.b leads through an object to a number, whose numeral is returned
C31_Witness ==
    /\ CursorReturned
    /\ fn_args.cursor_field = <<"a", ".", "b">>
    /\ fn_args.payload = JObject(<<"a">> :> JObject(<<"b">> :> JNum(<<"0">>)))
    /\ fn_ret[1] = TextValue(<<"0">>)
\* an intermediate value that is no object, a null on the path, an empty key
C31_WitnessNotObject ==
    /\ CursorReturned
    /\ fn_args.cursor_field = <<"a", ".", "b">>
    /\ fn_args.payload = JObject(<<"a">> :> JStr(<<"x">>))
    /\ fn_ret[1] = NoneValue
C31_WitnessNull ==
    /\ CursorReturned
    /\ fn_args.cursor_field = <<"a">>
    /\ fn_args.payload = JObject(<<"a">> :> JNull)
    /\ fn_ret[1] = NoneValue
C31_WitnessEmptyKey ==
    /\ CursorReturned
    /\ fn_args.cursor_field = <<"a", ".">>
    /\ fn_args.payload = JObject(<<"a">> :> JObject(<<"b">> :> JStr(<<"x">>)))
    /\ fn_ret[1] = NoneValue
\* the value at the end is an object: its repr is returned
C31_WitnessObject ==
    /\ CursorReturned
    /\ fn_args.cursor_field = <<"a">>
    /\ fn_args.payload = JObject(<<"a">> :> JObject(<<"b">> :> JStr(<<"x">>)))
    /\ fn_ret[1] = TextValue(<<"{", "'", "b", "'", ":", " ", "'", "x", "'", "}">>)

(***************************************************************************)
(* Properties of match_requested_fields.                                   *)
(***************************************************************************)
MatchReturned == fn = "match_requested_fields" /\ fn_ret # <<>>
\* the alphabetically first name of a non-empty set of names
FirstName(S) == CHOOSE x \in S : \A y \in S : StrLeq(x, y)
\* the shortest names of a set
ShortestNames(S) == {x \in S : \A y \in S : Len(x) <= Len(y)}
\* the available fields of a normalized form, and those whose normalized form
\* holds the requested one or is held by it
SameForm(avail, norm) == {f \in avail : NormalizeFieldName(f) = norm}
PartialForm(avail, norm) ==
    {f \in avail : \/ IsSubstring(norm, NormalizeFieldName(f))
                   \/ IsSubstring(NormalizeFieldName(f), norm)}

\* the request is resolved as stated; partial is the field a partial match
\* must choose among the candidates
ResolvedAs(result, avail, req, partial(_)) ==
    LET norm == NormalizeFieldName(req)
        matched == result.matched_fields
        unmatched == result.unmatched_requested
        listed == \E i \in 1..Len(unmatched) : unmatched[i] = req
    IN IF norm = <<>> THEN req \notin DOMAIN matched /\ ~listed
       ELSE IF SameForm(avail, norm) # {}
       THEN /\ req \in DOMAIN matched
            /\ matched[req] \in ShortestNames(SameForm(avail, norm))
            /\ ~listed
       ELSE IF PartialForm(avail, norm) # {}
       THEN /\ req \in DOMAIN matched
            /\ matched[req] = partial(PartialForm(avail, norm))
            /\ ~listed
       ELSE req \notin DOMAIN matched /\ listed

\* the field the loop over normalized_to_actual chooses: of the normalized
\* form whose alphabetically first field comes first, the first of the shortest
\* fields
FirstInserted(cands) ==
    LET form == NormalizeFieldName(FirstName(cands))
    IN FirstName(ShortestNames({f \in AllFields(fn_args.records) :
                                   NormalizeFieldName(f) = form}))

\* C32: match_requested_fields resolves each requested field whose normalized
\* form is non-empty: an available field of the same normalized form is chosen
\* (the shortest name when several collide); otherwise the first available
\* field, in alphabetical order of the field names, whose normalized form holds
\* the requested one or is held by it; otherwise the request is recorded in
\* unmatched_requested.  Requests that normalize to empty appear in neither
\* matched_fields nor unmatched_requested.
C32_MatchResolution ==
    MatchReturned =>
        \A i \in 1..Len(fn_args.requested_fields) :
            ResolvedAs(fn_ret[1], AllFields(fn_args.records),
                       fn_args.requested_fields[i], FirstName)

\* what the code does: so it is when there are records, the partial match
\* taking the normalized forms in the order of their first fields and giving
\* the shortest field of the form
C32_MatchResolutionOfRecords ==
    (MatchReturned /\ fn_args.records # <<>>) =>
        \A i \in 1..Len(fn_args.requested_fields) :
            ResolvedAs(fn_ret[1], AllFields(fn_args.records),
                       fn_args.requested_fields[i], FirstInserted)

\* no records: a request that normalizes to empty is reported as unmatched
C32_EmptyRequestUnmatched ==
    /\ MatchReturned
    /\ fn_args.records = <<>>
    /\ fn_args.requested_fields = <<<<"-">>>>
    /\ fn_ret[1].unmatched_requested = <<<<"-">>>>

\* the fields a_b, a_c and ab, the request a: ab is chosen although a_b comes
\* first
C32_CollisionKeepsPlace ==
    /\ MatchReturned
    /\ fn_args.records = CollidingRecords
    /\ fn_ret[1].matched_fields = (<<"a">> :> <<"a", "b">>)

(***************************************************************************)
(* Properties of selector and table extraction.                            *)
(***************************************************************************)
\* the records selector extraction returned
SelectorRecords == fn_ret[1].records
SelectorExtracted == HtmlReturned /\ SelectorSupplied /\ ~fn_ret[1].raised
RealFields(record) == (DOMAIN record) \ {IndexKey}

\* C33: in selector extraction, every returned record that holds at least one
\* real field (a field other than the positional index) does not hold the key
\* '_index', and no returned record consists of the positional index alone.
C33_IndexDropped ==
    SelectorExtracted =>
        \A i \in 1..Len(SelectorRecords) :
            /\ RealFields(SelectorRecords[i]) # {} => IndexKey \notin DOMAIN SelectorRecords[i]
            /\ DOMAIN SelectorRecords[i] # {IndexKey}

\* what the code does: the index goes once there are two real fields, and
\* stays beside a single one
C33_IndexDroppedBesideTwo ==
    SelectorExtracted =>
        \A i \in 1..Len(SelectorRecords) :
            /\ IndexKey \in DOMAIN SelectorRecords[i]
                   <=> Cardinality(RealFields(SelectorRecords[i])) = 1
            /\ DOMAIN SelectorRecords[i] # {IndexKey}

\* a returned record of the positional index and the text of the element
C33_IndexBesideText ==
    /\ SelectorExtracted
    /\ \E i \in 1..Len(SelectorRecords) : DOMAIN SelectorRecords[i] = {IndexKey, TextKey}

\* the tables of the document, in document order, and what each yields
TablesOf(html) == SelectSeq(Preorder(html), LAMBDA e : e.name = "table")
Yield(html, k) == TableRecords(TablesOf(html)[k])
TablesExtracted == HtmlReturned /\ ~SelectorSupplied /\ ~fn_ret[1].raised

\* C34: table extraction returns the records of the table that yields the most
\* non-blank data rows among all tables of the document; when several tables
\* tie for the maximum the first one in document order is returned; when no
\* table yields a data row it returns the empty list.
C34_LargestTableFirst ==
    TablesExtracted =>
        LET html == fn_args.html
            n == Len(TablesOf(html))
            returned == fn_ret[1].records
        IN IF \A k \in 1..n : Yield(html, k) = <<>> THEN returned = <<>>
           ELSE \E k \in 1..n :
                    /\ returned = Yield(html, k)
                    /\ \A j \in 1..n : Len(Yield(html, j)) <= Len(returned)
                    /\ \A j \in 1..(k - 1) : Len(Yield(html, j)) < Len(returned)

\* two tables that yield one row each, not the same one: the first is returned
C34_Witness ==
    /\ TablesExtracted
    /\ Len(TablesOf(fn_args.html)) = 2
    /\ Len(Yield(fn_args.html, 1)) = 1
    /\ Len(Yield(fn_args.html, 2)) = 1
    /\ Yield(fn_args.html, 1) # Yield(fn_args.html, 2)
    /\ fn_ret[1].records = Yield(fn_args.html, 1)
\* the second table yields more rows than the first, and is returned
C34_WitnessLater ==
    /\ TablesExtracted
    /\ Len(TablesOf(fn_args.html)) = 2
    /\ Len(Yield(fn_args.html, 1)) = 1
    /\ Len(Yield(fn_args.html, 2)) = 2
    /\ fn_ret[1].records = Yield(fn_args.html, 2)
\* a table without rows among others: nothing is returned
C34_WitnessNone ==
    /\ TablesExtracted
    /\ TablesOf(fn_args.html) # <<>>
    /\ fn_ret[1].records = <<>>

(***************************************************************************)
(* Properties of the requests the handlers send.                           *)
(***************************************************************************)
\* C35: in XHR mode with method POST and pagination configured, the parameters
\* run_pagination sets for each page (page number, offset and limit, or
\* cursor) are not part of the outbound request: every page of a pass issues a
\* POST with the same URL and the same body as the first page.
C35_PostPagesAlike ==
    (mode = "xhr" /\ method = "POST" /\ pagination.type # "none") =>
        \A id \in 1..Len(Identifiers) :
            \A k \in 1..Len(PagesOf(id)) :
                /\ PagesOf(id)[k].sent.method = "POST"
                /\ PagesOf(id)[k].sent.query = EmptyDict
                /\ PagesOf(id)[k].sent = PagesOf(id)[1].sent

\* two pages of one pass were handed different parameters and sent the same
\* POST
C35_Witness ==
    /\ mode = "xhr"
    /\ method = "POST"
    /\ \E id \in 1..Len(Identifiers) :
           /\ Len(PagesOf(id)) >= 2
           /\ PagesOf(id)[1].params # PagesOf(id)[2].params
           /\ PagesOf(id)[1].sent = PagesOf(id)[2].sent
           /\ PagesOf(id)[1].sent.method = "POST"

\* pass id is over
PassOver(id) == id <= Len(pass_log)
\* the position in events of the un-paginated fetch of pass id
FirstFetchAt(id) == CHOOSE i \in 1..Len(events) : events[i].kind = "fetch" /\ events[i].id = id
\* run_pagination returned to the pass: it did not raise
EngineReturned(id) == PassOver(id) /\ ~pass_log[id].failed

\* C36: in document mode with PageParam pagination, a pass first fetches the
\* un-paginated URL exactly once; if that fetch has status >= 400 or yields no
\* records, no paginated page is fetched and the pass contributes zero records;
\* otherwise the pages start..end are driven by run_pagination and the records
\* of the pass are exactly the records the engine returned (those of the
\* initial fetch are not added to them).
C36_DocumentPagedPass ==
    (mode = "document" /\ pagination.type = "page_param") =>
        \A id \in 1..Len(Identifiers) :
            /\ (PassOver(id) \/ PagesOf(id) # <<>>) =>
                   /\ Len(FetchesOf(id)) = 1
                   /\ FetchesOf(id)[1].sent = Request("GET", id, EmptyDict, FALSE)
                   /\ \A i \in 1..Len(events) :
                          IsPageOf(events[i], id) => FirstFetchAt(id) < i
            /\ (PassOver(id) /\ (~FetchesOf(id)[1].status_ok \/ FetchesOf(id)[1].n = 0)) =>
                   /\ PagesOf(id) = <<>>
                   /\ RecordsOf(id) = <<>>
            /\ (EngineReturned(id) /\ FetchesOf(id)[1].status_ok /\ FetchesOf(id)[1].n > 0) =>
                   /\ \A c \in 1..Len(PagesOf(id)) :
                          /\ PagesOf(id)[c].params[pagination.param] = pagination.start + c - 1
                          /\ PagesOf(id)[c].params[pagination.param] <= pagination.end
                   /\ RecordsOf(id) = ConcatPagesOf(id, PagesOf(id), Len(PagesOf(id)))
                   /\ \A k \in 1..Len(RecordsOf(id)) : RecordsOf(id)[k].call > 0

\* a pass whose first fetch held a record and whose two pages held one each:
\* the pass gives the two records of the pages
C36_Witness ==
    /\ mode = "document"
    /\ pagination.type = "page_param"
    /\ EngineReturned(1)
    /\ FetchesOf(1)[1].n = 1
    /\ Len(PagesOf(1)) = 2
    /\ Len(RecordsOf(1)) = 2
\* an error page that holds a record: no page is fetched
C36_WitnessErrorPage ==
    /\ mode = "document"
    /\ pagination.type = "page_param"
    /\ PassOver(1)
    /\ ~FetchesOf(1)[1].status_ok
    /\ FetchesOf(1)[1].n = 1
    /\ PagesOf(1) = <<>>
    /\ ~pass_log[1].failed

(***************************************************************************)
(* Properties of the response.                                             *)
(***************************************************************************)
Responses == SelectSeq(events, LAMBDA e : e.kind = "response")
CsvWrites == {i \in 1..Len(events) : events[i].kind = "write_csv"}
\* the positions of the trace entries of a step
TraceAt(step) == {i \in 1..Len(trace) : trace[i].step = step}

\* C37: every response of the three analyze handlers satisfies: has_data is
\* true if and only if record_count > 0 if and only if csv_url is present; the
\* CSV export is written at most once per request, only after all passes and
\* field filtering are done, and only when the final record list is non-empty.
C37_ResponseConsistent ==
    /\ \A k \in 1..Len(Responses) :
           /\ Responses[k].has_data <=> Responses[k].n > 0
           /\ Responses[k].has_data <=> Responses[k].csv_url
    /\ Cardinality(CsvWrites) <= 1
    /\ \A i \in CsvWrites :
           /\ events[i].n > 0
           /\ Len(pass_log) = Len(Identifiers)
           /\ \A j \in 1..Len(events) :
                  events[j].kind \in {"fetch", "page", "sleep", "batch_sleep"} => j < i
           /\ TraceAt("field_filtering") # {}
           /\ \A w \in TraceAt("write_csv") : \E f \in TraceAt("field_filtering") : f < w

\* a request of two passes is answered with data: the file was written once,
\* after the last fetch
C37_Witness ==
    /\ hpc = "done"
    /\ Len(pass_log) = 2
    /\ Len(Responses) = 1
    /\ Responses[1].has_data
    /\ Responses[1].n > 0
    /\ Responses[1].csv_url
    /\ Cardinality(CsvWrites) = 1
\* records were extracted, filtering left none: no file, no data
C37_WitnessFilteredOut ==
    /\ hpc = "done"
    /\ h_all_records # <<>>
    /\ Len(Responses) = 1
    /\ ~Responses[1].has_data
    /\ Responses[1].n = 0
    /\ ~Responses[1].csv_url
    /\ CsvWrites = {}

C38_WitnessRaised ==
    /\ rpc = "raised"
    /\ base_params # EmptyDict
    /\ params # base_params

(***************************************************************************)
(* Termination of run_pagination.  The function is one sequential loop: a  *)
(* started run takes its next step once the pending callback has returned  *)
(* or raised, which is what weak fairness of its steps states.             *)
(***************************************************************************)
SpecEngineLive == SpecEngine /\ WF_vars(NextEngine)

\* run_pagination has returned, or the callback's exception has left it
RunEnded == rpc \in {"returned", "raised"}

\* the number of fetch_page calls the spec allows: end - start + 1 for
\* PageParam, max_pages for Offset and Cursor
CallBound ==
    IF pagination.type = "page_param"
    THEN pagination.end - pagination.start + 1
    ELSE pagination.max_pages

\* the page numbers of range(start, end + 1), none when end < start
PageRange == pagination.start .. pagination.end

\* C39: every pagination run terminates whatever the callbacks return, each
\* invocation returning or raising: fetch_page is called at most
\* end - start + 1 times for PageParam and at most max_pages times for Offset
\* and Cursor.
C39_RunTerminates == [](Len(Calls) <= CallBound) /\ <>RunEnded

\* every run ends
C39_Ends == <>RunEnded

\* the calls of a PageParam run are bounded by the size of its range (zero
\* when end < start), those of Offset and Cursor runs by max_pages
C39_CallsWithinRange ==
    Len(Calls) <= IF pagination.type = "page_param"
                  THEN Cardinality(PageRange)
                  ELSE pagination.max_pages

\* a cursor run whose every page carried a non-empty cursor has ended after
\* max_pages calls
C39_WitnessCursorForever ==
    /\ pagination.type = "cursor"
    /\ RunEnded
    /\ Len(Calls) = pagination.max_pages
    /\ pagination.max_pages > 1
    /\ \A k \in 1..Len(Calls) : Calls[k].next # None /\ ~Calls[k].raised
    /\ run.stopped_reason = "max_pages"
\* a PageParam run over an empty range has ended without a call
C39_WitnessEmptyRange ==
    /\ pagination.type = "page_param"
    /\ pagination.end < pagination.start - 1
    /\ RunEnded
    /\ Calls = <<>>
====
